---- MODULE Spec2Model ----
(***************************************************************************)
(* A model of the image server of moukito/ELP-project: the connection      *)
(* handler, the three worker pools, the connection semaphore and the       *)
(* shutdown path (cmd/server/main.go, internal/worker/worker.go), and the   *)
(* data path of one connection (tiling, stitching, FindCorner).            *)
(*                                                                         *)
(* The server source that is modelled is the snapshot held in              *)
(* src/elm/src/ParsingUtils.elm, lines 696-1292 (package main), in which    *)
(* all four stages fan out to numWorkers tasks.                            *)
(***************************************************************************)
EXTENDS Integers, Sequences, FiniteSets, TLC

(* ------------------------------ bounds --------------------------------- *)
\* Connections that arrive in a run of the pipeline specification.
MaxConns == 2
\* Largest value of runtime.NumCPU() explored.
MaxWorkers == 2
\* numWorkers + connections explored together in one run.
MaxLoad == 3
\* Processing functions that return an error in one run.
MaxFaults == 1
\* Requests that are sent completely while the semaphore is exercised.
MaxSemRequests == 1

\* Largest image height of the stitching runs.
MaxHeight == 64
\* Largest numWorkers of the stitching runs.
MaxBands == 3
\* Largest image width and height of the cropping runs.
MaxDim == 4
\* Contour points FindCorner folds in one cropping run.
MaxPoints == 3
\* Largest polygon area of a contour (in half units).
MaxArea == 2
\* Largest number of contours the Contours stage returns.
MaxContours == 4
\* Largest number of pixels of the large component of an edge map.
MaxPixels == 52
\* Largest width of the grid the large component fills row by row.
MaxGridW == 3
\* Isolated white pixels next to the large component.
MaxTail == 1
\* Largest width and height of a band given to ApplyCannyEdgeDetection.
MaxBandDim == 8
\* Largest first row (Rect.Min.Y) of such a band.
MaxOffset == 1
\* The gray values of the bands are 0 and 2^0 .. 2^MaxGrayBits.
MaxGrayBits == 7

\* Largest number of payload bytes of a request.
MaxPayload == 4
\* Largest length of the encoded reply.
MaxDataLen == 2060
\* Writes of one reply that accept fewer bytes than were offered.
MaxShortWrites == 2
\* Largest runtime.NumCPU() of the result channel runs.
MaxCpus == 101
\* The result channel runs take the MaxCpus - CpuSpan .. MaxCpus processors.
CpuSpan == 2

\* Names of the output sequence that exist when the client starts.
MaxNames == 4
\* Files other processes create or remove while the client chooses.
MaxFileOps == 2

\* Points of the contour polygonArea is called with.
MaxAreaPoints == 3
\* Largest coordinate of such a point.
MaxCoord == 2

\* Width and height of the bands hysteresisThresholding is run on alone.
MaxNmsW == 5
MaxNmsH == 3
\* Largest magnitude in such a band.
MaxMagnitude == 2
\* Largest totalGradient of ComputeDynamicThresholds for such a band.
MaxTotalGradient == 6

\* Largest high byte of a colour channel Grayscale is run on alone.
MaxChannel == 2

(* -------------------------- program constants -------------------------- *)
bufferSize == 1024
\* make(chan net.Conn, 5)
SemCap == 5
\* make(chan worker.Task[...], 100): the three pool channels
PoolCap == 100
\* make(chan worker.Task[...], 100): the per-stage result channels
ResultCap == 100
overlapSize == 20

Pools == {"image", "bfs", "quad"}
StageSet == {"gray", "canny", "bfs", "quad"}
WorkerIds == 0..(MaxWorkers - 1)

\* The pool channel each stage's tasks are sent on.
PoolOf(s) == CASE s = "gray" -> "image"
               [] s = "canny" -> "image"
               [] s = "bfs" -> "bfs"
               [] s = "quad" -> "quad"

VARIABLES
  proc,          \* "running" | "exited" (os.Exit(0)) | "fatal" (log.Fatalf) | "panic"
  stopped,       \* server.stopCtx is cancelled
  sd,            \* position of the shutdown goroutine of run()
  listenerOpen,  \* the listener has not been closed
  accepted,      \* number of connections Accept has returned
  numWorkers,    \* server.numWorkers = numWorkers = runtime.NumCPU()
  sem,           \* number of elements buffered in socketSemaphore
  semClosed,     \* socketSemaphore is closed
  pool,          \* pool channel -> queued tasks
  poolClosed,    \* pool channel -> closed
  wk,            \* pool -> [idle, stopped: number of workers; busy: tasks in work]
  hpc,           \* connection -> position of its handleConnection goroutine
  hi,            \* connection -> loop counter i of the current loop
  results,       \* connection -> stage -> buffered results of the result channel
  resClosed,     \* connection -> stage -> the result channel is closed
  conn,          \* connection -> "none" | "open" | "closed"
  replied,       \* connection -> reply bytes were written to it
  sent,          \* connection -> stage -> tasks dispatched (history)
  got,           \* connection -> stage -> results collected (history)
  exitWhy,       \* connection -> why the handler returned (history)
  failure,       \* connection -> the codec failure it met (history)
  errSeen,       \* connection -> a result it collected carried an error (history)
  taken,         \* task id -> times a worker received it (history)
  delivered,     \* task id -> times it was sent on a result channel (history)
  sawStop,       \* connection -> was at a collection select while stopped (history)
  faults,        \* processing functions that returned an error (history)
  quota          \* requests the clients still send completely

serverVars == <<proc, stopped, sd, listenerOpen, accepted, numWorkers, sem,
                semClosed, pool, poolClosed, wk, hpc, hi, results, resClosed,
                conn, replied, sent, got, exitWhy, failure, errSeen, taken,
                delivered, sawStop, faults, quota>>

VARIABLES
  imgW,          \* img.Bounds().Dx(); decoded images have Min = (0, 0)
  imgH,          \* img.Bounds().Dy() = totalRows
  spc,           \* position of the band split / stitch code
  si,            \* its loop counter i
  bands,         \* bands dispatched and not yet collected from resultCannyChan
  cannyResults,  \* the slice `results` of Canny outputs
  drawn,         \* row of cannyImage -> bands a draw.Draw call wrote it from
  cpc,           \* position of the crop code
  corner1,       \* FindCorner: corner1
  corner2,       \* FindCorner: corner2
  scanned,       \* contour points FindCorner has visited
  contourSeen,   \* the points of the contour visited so far (history)
  crop,          \* the rectangle `rect` of the final image
  contourA4,     \* the globally selected geometry.ContourWithArea
  format,        \* the format name image.Decode returned
  replyOut,      \* outcome of sendImage for the cropped image
  quadSt,        \* the Quadrilateral stage on data: slices, results, selection
  cannySt,       \* ApplyCannyEdgeDetection on one band, then FindContoursBFS
  bfsSt,         \* FindContoursBFS on one edge map
  recvSt,        \* receiveImage: the read loop and the decoder's input
  sendSt,        \* sendImage: the write loop
  capSt,         \* one result channel and the tasks dispatched with it
  clientSt,      \* the client's choice of the output file name
  areaSt,        \* polygonArea on one contour
  graySt         \* Grayscale on one pixel

geomVars == <<imgW, imgH, spc, si, bands, cannyResults, drawn, cpc, corner1,
              corner2, scanned,
                 contourSeen, crop>>

replyVars == <<contourA4, format, replyOut>>

dataVars == <<quadSt, cannySt, bfsSt, recvSt, sendSt, capSt, clientSt,
              areaSt, graySt>>

pureVars == <<geomVars, replyVars, dataVars>>

vars == <<serverVars, pureVars>>

NoTask == [conn |-> 0, stage |-> "none", idx |-> 0, fn |-> "nil", rch |-> "nil"]

\* worker.Task as the handler builds it: Function is one of the wrappers,
\* ResultChan the channel the handler made for the stage.
Task(c, s, i) == [conn |-> c, stage |-> s, idx |-> i, fn |-> "func", rch |-> s]

CollectPcs == {"collGray", "collCanny", "collBfs", "collQuad"}
HoldingPcs == {"recv", "dispGray", "collGray", "sendCanny", "collCanny",
               "dispBfs", "collBfs", "dispQuad", "collQuad", "reply"}

\* The connections of the run: every per-connection variable has this domain.
ConnIds == DOMAIN hpc

InitServer(C, q) ==
  /\ proc = "running"
  /\ stopped = FALSE
  /\ sd = "wait"
  /\ listenerOpen = TRUE
  /\ accepted = 0
  /\ sem = 0
  /\ semClosed = FALSE
  /\ pool = [p \in Pools |-> <<>>]
  /\ poolClosed = [p \in Pools |-> FALSE]
  /\ wk = [p \in Pools |-> [idle |-> numWorkers, stopped |-> 0, busy |-> {}]]
  /\ hpc = [c \in C |-> "none"]
  /\ hi = [c \in C |-> 0]
  /\ results = [c \in C |-> [s \in StageSet |-> <<>>]]
  /\ resClosed = [c \in C |-> [s \in StageSet |-> FALSE]]
  /\ conn = [c \in C |-> "none"]
  /\ replied = [c \in C |-> FALSE]
  /\ sent = [c \in C |-> [s \in StageSet |-> 0]]
  /\ got = [c \in C |-> [s \in StageSet |-> 0]]
  /\ exitWhy = [c \in C |-> "none"]
  /\ failure = [c \in C |-> "none"]
  /\ errSeen = [c \in C |-> FALSE]
  /\ taken = [t \in C \X StageSet \X WorkerIds |-> 0]
  /\ delivered = [t \in C \X StageSet \X WorkerIds |-> 0]
  /\ sawStop = [c \in C |-> FALSE]
  /\ faults = 0
  /\ quota = q

\* image.Rectangle{}: the zero rectangle.
ZR == [Min |-> [X |-> 0, Y |-> 0], Max |-> [X |-> 0, Y |-> 0]]

\* geometry.ContourWithArea{Area: 0}: the nil contour, written as index -1.
NoContour == [Contour |-> -1, Area |-> 0]

ReplyOff ==
  /\ contourA4 = NoContour
  /\ format = "none"
  /\ replyOut = "none"

Off == [pc |-> "off"]

\* The data-path components a specification does not run.
DataOff(running) ==
  /\ "quad" \in running \/ quadSt = Off
  /\ "canny" \in running \/ cannySt = Off
  /\ "bfs" \in running \/ bfsSt = Off
  /\ "recv" \in running \/ recvSt = Off
  /\ "send" \in running \/ sendSt = Off
  /\ "cap" \in running \/ capSt = Off
  /\ "client" \in running \/ clientSt = Off
  /\ "area" \in running \/ areaSt = Off
  /\ "gray" \in running \/ graySt = Off

\* The server specifications do not run the image geometry.
GeometryOff ==
  /\ ReplyOff
  /\ DataOff({})
  /\ imgW = 0
  /\ imgH = 0
  /\ spc = "off"
  /\ si = 0
  /\ bands = {}
  /\ cannyResults = <<>>
  /\ drawn = <<>>
  /\ cpc = "off"
  /\ corner1 = ZR.Min
  /\ corner2 = ZR.Min
  /\ scanned = 0
  /\ contourSeen = {}
  /\ crop = ZR

(* --------------------------- the accept loop --------------------------- *)

\* run(): listener.Accept() returns a connection; a cancelled context closes
\* it at once, otherwise a handler goroutine is started.
AcceptConn ==
  /\ proc = "running"
  /\ listenerOpen
  /\ accepted + 1 \in ConnIds
  /\ accepted' = accepted + 1
  /\ IF stopped
       THEN /\ conn' = [conn EXCEPT ![accepted + 1] = "closed"]
            /\ hpc' = [hpc EXCEPT ![accepted + 1] = "done"]
            /\ exitWhy' = [exitWhy EXCEPT ![accepted + 1] = "refused"]
       ELSE /\ conn' = [conn EXCEPT ![accepted + 1] = "open"]
            /\ hpc' = [hpc EXCEPT ![accepted + 1] = "sem"]
            /\ UNCHANGED exitWhy
  /\ UNCHANGED <<pureVars, proc, stopped, sd, listenerOpen, numWorkers, sem, semClosed,
                 pool, poolClosed, wk, hi, results, resClosed, replied, sent,
                 got, failure, errSeen, taken, delivered, sawStop, faults, quota>>

\* run(): Accept fails on the closed listener, run returns and main calls
\* os.Exit(0).
MainExit ==
  /\ proc = "running"
  /\ ~listenerOpen
  /\ proc' = "exited"
  /\ UNCHANGED <<pureVars, stopped, sd, listenerOpen, accepted, numWorkers, sem,
                 semClosed, pool, poolClosed, wk, hpc, hi, results, resClosed,
                 conn, replied, sent, got, exitWhy, failure, errSeen, taken, delivered,
                 sawStop, faults, quota>>

(* ------------------------------ shutdown ------------------------------- *)

\* The history of C6: a handler stood at a collection select while the
\* context was cancelled.
SawStopNext ==
  sawStop' = [c \in ConnIds |->
                sawStop[c] \/ (stopped' /\ hpc'[c] \in CollectPcs)]

\* main(): the signal goroutine receives os.Interrupt and calls server.cancel().
Interrupt ==
  /\ proc = "running"
  /\ ~stopped
  /\ stopped' = TRUE
  /\ UNCHANGED <<pureVars, proc, sd, listenerOpen, accepted, numWorkers, sem, semClosed,
                 pool, poolClosed, wk, hpc, hi, results, resClosed, conn,
                 replied, sent, got, exitWhy, failure, errSeen, taken, delivered,
                 faults, quota>>
  /\ SawStopNext

\* run(): the shutdown goroutine, one close per step.
ShutdownStep ==
  /\ proc = "running"
  /\ stopped
  /\ sd # "done"
  /\ CASE sd = "wait" ->
            /\ listenerOpen' = FALSE
            /\ sd' = "closeSem"
            /\ UNCHANGED <<semClosed, poolClosed>>
       [] sd = "closeSem" ->
            /\ semClosed' = TRUE
            /\ sd' = "closeImage"
            /\ UNCHANGED <<listenerOpen, poolClosed>>
       [] sd = "closeImage" ->
            /\ poolClosed' = [poolClosed EXCEPT !["image"] = TRUE]
            /\ sd' = "closeBfs"
            /\ UNCHANGED <<listenerOpen, semClosed>>
       [] sd = "closeBfs" ->
            /\ poolClosed' = [poolClosed EXCEPT !["bfs"] = TRUE]
            /\ sd' = "closeQuad"
            /\ UNCHANGED <<listenerOpen, semClosed>>
       [] sd = "closeQuad" ->
            /\ poolClosed' = [poolClosed EXCEPT !["quad"] = TRUE]
            /\ sd' = "done"
            /\ UNCHANGED <<listenerOpen, semClosed>>
  /\ UNCHANGED <<pureVars, proc, stopped, accepted, numWorkers, sem, pool, wk, hpc, hi,
                 results, resClosed, conn, replied, sent, got, exitWhy,
                 failure, errSeen, taken, delivered, sawStop, faults, quota>>

(* ------------------------------ workers -------------------------------- *)
\* The numWorkers goroutines of a pool run the same closure and differ only
\* in the id they log, so a pool is kept as the number of its idle and of
\* its stopped workers and the set of the tasks its busy workers hold.

Result(t, out, err) ==
  [conn |-> t.conn, stage |-> t.stage, idx |-> t.idx, fn |-> t.fn,
   out |-> out, err |-> err]

\* TreatmentWorker: the sequence of sends on task.ResultChan, for each
\* possible return of task.Function.
TreatmentWorkerDropNil(t) ==
  IF t.fn = "nil"
    THEN {<<>>}
    ELSE {<<Result(t, "value", "none")>>, <<Result(t, "zero", "ferr")>>}

TreatmentWorker(t) ==
  IF t.fn = "nil"
    THEN {<<Result(t, "zero", "nofunc")>>}
    ELSE {<<Result(t, "value", "none")>>, <<Result(t, "zero", "ferr")>>}

\* StartWorkerPool: `for task := range tasks` receives the next task.
WorkerTake(p) ==
  /\ proc = "running"
  /\ wk[p].idle > 0
  /\ pool[p] # <<>>
  /\ wk' = [wk EXCEPT ![p].idle = @ - 1, ![p].busy = @ \cup {Head(pool[p])}]
  /\ pool' = [pool EXCEPT ![p] = Tail(@)]
  /\ LET t == Head(pool[p]) IN
       taken' = [taken EXCEPT ![<<t.conn, t.stage, t.idx>>] = @ + 1]
  /\ UNCHANGED <<pureVars, proc, stopped, sd, listenerOpen, accepted, numWorkers, sem,
                 semClosed, poolClosed, hpc, hi, results, resClosed, conn,
                 replied, sent, got, exitWhy, failure, errSeen, delivered, sawStop,
                 faults, quota>>

\* One result channel per stage, made once and used by every connection.
ResultChanShared(t) == 1

\* task.ResultChan: the channel the handler of the task's connection made
\* for the stage (the handler it is collected by).
ResultChan(t) == t.conn

\* StartWorkerPool: workerFunc(task), i.e. TreatmentWorker, runs the function
\* and sends the task on its result channel (blocking while it is full,
\* panicking when it is closed).
WorkerRun(p) ==
  /\ proc = "running"
  /\ \E t \in wk[p].busy : \E d \in TreatmentWorker(t) :
       LET nferr == Cardinality({k \in DOMAIN d : d[k].err = "ferr"}) IN
       /\ faults + nferr <= MaxFaults
       /\ faults' = faults + nferr
       /\ IF d # <<>> /\ t.rch # "nil" /\ resClosed[ResultChan(t)][t.rch]
            THEN /\ proc' = "panic"
                 /\ UNCHANGED <<wk, results, delivered>>
            ELSE /\ \/ t.rch = "nil"
                    \/ Len(results[ResultChan(t)][t.rch]) + Len(d) <= ResultCap
                 /\ results' = IF t.rch = "nil" THEN results
                               ELSE [results EXCEPT ![ResultChan(t)][t.rch] = @ \o d]
                 /\ delivered' = IF t.rch = "nil" THEN delivered
                                 ELSE [delivered EXCEPT
                                         ![<<t.conn, t.stage, t.idx>>] = @ + Len(d)]
                 /\ wk' = [wk EXCEPT ![p].idle = @ + 1, ![p].busy = @ \ {t}]
                 /\ UNCHANGED proc
  /\ UNCHANGED <<pureVars, stopped, sd, listenerOpen, accepted, numWorkers, sem,
                 semClosed, pool, poolClosed, hpc, hi, resClosed, conn,
                 replied, sent, got, exitWhy, failure, errSeen, taken, sawStop, quota>>

\* The range loop ends as soon as the channel is closed.
RangeEndsOnClose(p) == poolClosed[p]

\* `for task := range tasks` ends when the channel is closed and drained.
RangeEnds(p) == poolClosed[p] /\ pool[p] = <<>>

\* StartWorkerPool: the range loop ends on the closed, drained channel.
WorkerStop(p) ==
  /\ proc = "running"
  /\ wk[p].idle > 0
  /\ RangeEnds(p)
  /\ wk' = [wk EXCEPT ![p].idle = @ - 1, ![p].stopped = @ + 1]
  /\ UNCHANGED <<pureVars, proc, stopped, sd, listenerOpen, accepted, numWorkers, sem,
                 semClosed, pool, poolClosed, hpc, hi, results, resClosed,
                 conn, replied, sent, got, exitWhy, failure, errSeen, taken, delivered,
                 sawStop, faults, quota>>

(* ------------------------- handleConnection ---------------------------- *)

\* What no step of a handler changes.
envVars == <<stopped, sd, listenerOpen, accepted, numWorkers, semClosed,
             poolClosed, wk, taken, delivered, faults>>

\* A send on the buffered semaphore channel goes through while it has room.
SemaphoreHasRoomOffByOne == sem <= SemCap

SemaphoreHasRoom == sem < SemCap

\* `for i := 0; i < server.numWorkers; i++`: iteration i was the last one.
LastIterationAlways(i) == TRUE

LastIteration(i) == i + 1 >= numWorkers

\* `if result.Err != nil`
TaskFailedNever(r) == FALSE

TaskFailed(r) == r.err # "none"

\* The deferred calls of handleConnection, run at every return: the receive
\* from socketSemaphore (a closed, drained channel yields at once), then
\* conn.Close().
HandlerReturn(c, why) ==
  /\ hpc' = [hpc EXCEPT ![c] = "done"]
  /\ sem' = IF sem > 0 THEN sem - 1 ELSE 0
  /\ conn' = [conn EXCEPT ![c] = "closed"]
  /\ exitWhy' = [exitWhy EXCEPT ![c] = why]

\* `workerChannels.socketSemaphore <- conn`: blocks while the channel is
\* full, panics once it is closed.
AcquireSemaphore(c) ==
  /\ proc = "running"
  /\ hpc[c] = "sem"
  /\ IF semClosed
       THEN /\ proc' = "panic"
            /\ UNCHANGED <<sem, hpc>>
       ELSE /\ SemaphoreHasRoom
            /\ sem' = sem + 1
            /\ hpc' = [hpc EXCEPT ![c] = "recv"]
            /\ UNCHANGED proc
  /\ UNCHANGED <<pureVars, envVars, pool, hi, results, resClosed, conn, replied, sent,
                 got, exitWhy, failure, errSeen, quota>>
  /\ SawStopNext

\* receiveImage: the request is read up to the marker and decoded; a decode
\* error ends in log.Fatalf.
ReceiveImage(c) ==
  /\ proc = "running"
  /\ hpc[c] = "recv"
  /\ quota > 0
  /\ quota' = quota - 1
  /\ \E r \in {"decoded", "undecodable"} :
       IF r = "decoded"
         THEN /\ hpc' = [hpc EXCEPT ![c] = "dispGray"]
              /\ hi' = [hi EXCEPT ![c] = 0]
              /\ UNCHANGED <<proc, failure>>
         ELSE /\ failure' = [failure EXCEPT ![c] = "decode"]
              /\ proc' = "fatal"
              /\ UNCHANGED <<hpc, hi>>
  /\ UNCHANGED <<pureVars, envVars, sem, pool, results, resClosed, conn, replied, sent,
                 got, exitWhy, errSeen>>
  /\ SawStopNext

\* One iteration of a dispatch loop: `workerChannels.<pool> <- task`.
\* The send blocks while the pool channel is full and panics once it is closed.
Dispatch(c, s, here, next) ==
  /\ proc = "running"
  /\ hpc[c] = here
  /\ IF poolClosed[PoolOf(s)]
       THEN /\ proc' = "panic"
            /\ UNCHANGED <<pool, sent, hpc, hi>>
       ELSE /\ Len(pool[PoolOf(s)]) < PoolCap
            /\ pool' = [pool EXCEPT ![PoolOf(s)] = Append(@, Task(c, s, hi[c]))]
            /\ sent' = [sent EXCEPT ![c][s] = @ + 1]
            /\ IF LastIteration(hi[c])
                 THEN /\ hpc' = [hpc EXCEPT ![c] = next]
                      /\ hi' = [hi EXCEPT ![c] = 0]
                 ELSE /\ hi' = [hi EXCEPT ![c] = @ + 1]
                      /\ UNCHANGED hpc
            /\ UNCHANGED proc
  /\ UNCHANGED <<pureVars, envVars, sem, results, resClosed, conn, replied, got,
                 exitWhy, failure, errSeen, quota>>
  /\ SawStopNext

DispatchGray(c) == Dispatch(c, "gray", "dispGray", "collGray")

\* The Contours loop entered from the Canny collection loop.
DispatchBfsEarly(c) == Dispatch(c, "bfs", "collCanny", "collBfs")

DispatchBfs(c) == Dispatch(c, "bfs", "dispBfs", "collBfs")

DispatchQuad(c) == Dispatch(c, "quad", "dispQuad", "collQuad")

\* `case <-server.stopCtx.Done(): return` of a collection select.
ShutdownBranchBreak(c) ==
  /\ exitWhy' = [exitWhy EXCEPT ![c] = "shutdown"]
  /\ hpc' = [hpc EXCEPT ![c] = "reply"]
  /\ UNCHANGED <<sem, conn>>

ShutdownBranch(c) == HandlerReturn(c, "shutdown")

\* One iteration of a collection loop: the select on the stage's result
\* channel and on stopCtx.Done(). When both are ready either may be taken.
\* After the last iteration the result channel is closed.
Collect(c, s, here, next) ==
  /\ proc = "running"
  /\ hpc[c] = here
  /\ \/ /\ results[c][s] # <<>>
        /\ results' = [results EXCEPT ![c][s] = Tail(@)]
        /\ got' = [got EXCEPT ![c][s] = @ + 1]
        /\ errSeen' = [errSeen EXCEPT ![c] = @ \/ Head(results[c][s]).err # "none"]
        /\ IF TaskFailed(Head(results[c][s]))
             THEN /\ HandlerReturn(c, "error")
                  /\ UNCHANGED <<hi, resClosed>>
             ELSE /\ IF LastIteration(hi[c])
                       THEN /\ hpc' = [hpc EXCEPT ![c] = next]
                            /\ hi' = [hi EXCEPT ![c] = 0]
                            /\ resClosed' = [resClosed EXCEPT ![c][s] = TRUE]
                       ELSE /\ hi' = [hi EXCEPT ![c] = @ + 1]
                            /\ UNCHANGED <<hpc, resClosed>>
                  /\ UNCHANGED <<sem, conn, exitWhy>>
     \/ /\ stopped
        /\ ShutdownBranch(c)
        /\ UNCHANGED <<results, got, hi, resClosed, errSeen>>
  /\ UNCHANGED <<pureVars, envVars, proc, pool, replied, sent, failure, quota>>
  /\ SawStopNext

CollectCanny(c) == Collect(c, "canny", "collCanny", "dispBfs")

CollectBfs(c) == Collect(c, "bfs", "collBfs", "dispQuad")

CollectQuad(c) == Collect(c, "quad", "collQuad", "reply")

\* The select of the Tile-Gray collection loop: a result that carries no
\* error is turned into a Canny task, which is sent within the same iteration.
CollectGray(c) ==
  /\ proc = "running"
  /\ hpc[c] = "collGray"
  /\ \/ /\ results[c]["gray"] # <<>>
        /\ results' = [results EXCEPT ![c]["gray"] = Tail(@)]
        /\ got' = [got EXCEPT ![c]["gray"] = @ + 1]
        /\ errSeen' = [errSeen EXCEPT ![c] = @ \/ Head(results[c]["gray"]).err # "none"]
        /\ IF TaskFailed(Head(results[c]["gray"]))
             THEN HandlerReturn(c, "error")
             ELSE /\ hpc' = [hpc EXCEPT ![c] = "sendCanny"]
                  /\ UNCHANGED <<sem, conn, exitWhy>>
     \/ /\ stopped
        /\ ShutdownBranch(c)
        /\ UNCHANGED <<results, got, errSeen>>
  /\ UNCHANGED <<pureVars, envVars, proc, pool, hi, resClosed, replied, sent, failure,
                 quota>>
  /\ SawStopNext

\* `workerChannels.imageChan <- task` for the Canny task of iteration i, the
\* end of the iteration, and close(resultGrayChan) after the last one.
DispatchCanny(c) ==
  /\ proc = "running"
  /\ hpc[c] = "sendCanny"
  /\ IF poolClosed["image"]
       THEN /\ proc' = "panic"
            /\ UNCHANGED <<pool, sent, hpc, hi, resClosed>>
       ELSE /\ Len(pool["image"]) < PoolCap
            /\ pool' = [pool EXCEPT !["image"] = Append(@, Task(c, "canny", hi[c]))]
            /\ sent' = [sent EXCEPT ![c]["canny"] = @ + 1]
            /\ IF LastIteration(hi[c])
                 THEN /\ hpc' = [hpc EXCEPT ![c] = "collCanny"]
                      /\ hi' = [hi EXCEPT ![c] = 0]
                      /\ resClosed' = [resClosed EXCEPT ![c]["gray"] = TRUE]
                 ELSE /\ hpc' = [hpc EXCEPT ![c] = "collGray"]
                      /\ hi' = [hi EXCEPT ![c] = @ + 1]
                      /\ UNCHANGED resClosed
            /\ UNCHANGED proc
  /\ UNCHANGED <<pureVars, envVars, sem, results, conn, replied, got, exitWhy, failure, errSeen,
                 quota>>
  /\ SawStopNext

\* sendImage and the return that follows it: imageToBuffer encodes the crop
\* (an encode error ends in log.Fatalf), the bytes are written in chunks (a
\* write error ends in log.Fatalf), and the handler returns.
SendReply(c) ==
  /\ proc = "running"
  /\ hpc[c] = "reply"
  /\ \E r \in {"sent", "encodeError", "writeError"} :
       CASE r = "sent" ->
              /\ replied' = [replied EXCEPT ![c] = TRUE]
              /\ HandlerReturn(c, "replied")
              /\ UNCHANGED <<proc, failure>>
         [] r = "encodeError" ->
              /\ failure' = [failure EXCEPT ![c] = "encode"]
              /\ proc' = "fatal"
              /\ UNCHANGED <<replied, hpc, sem, conn, exitWhy>>
         [] r = "writeError" ->
              /\ failure' = [failure EXCEPT ![c] = "write"]
              /\ proc' = "fatal"
              /\ UNCHANGED <<replied, hpc, sem, conn, exitWhy>>
  /\ UNCHANGED <<pureVars, envVars, pool, hi, results, resClosed, sent, got, errSeen,
                 quota>>
  /\ SawStopNext

(* ------------------- the pools under a generic caller ------------------ *)
\* worker.go is generic in the task: its callers may leave Function nil.
\* The caller below sends up to MaxWorkers tasks per result channel, each
\* with a Function or without one, receives results and closes the channels.

PoolSubmit(c, s, f) ==
  /\ proc = "running"
  /\ sent[c][s] \in WorkerIds
  /\ ~poolClosed[PoolOf(s)]
  /\ Len(pool[PoolOf(s)]) < PoolCap
  /\ pool' = [pool EXCEPT ![PoolOf(s)] =
                Append(@, [Task(c, s, sent[c][s]) EXCEPT !.fn = f])]
  /\ sent' = [sent EXCEPT ![c][s] = @ + 1]
  /\ UNCHANGED <<pureVars, envVars, proc, sem, hpc, hi, results, resClosed, conn,
                 replied, got, exitWhy, failure, errSeen, sawStop, quota>>

PoolReceive(c, s) ==
  /\ proc = "running"
  /\ results[c][s] # <<>>
  /\ results' = [results EXCEPT ![c][s] = Tail(@)]
  /\ got' = [got EXCEPT ![c][s] = @ + 1]
  /\ UNCHANGED <<pureVars, envVars, proc, sem, pool, hpc, hi, resClosed, conn, replied,
                 sent, exitWhy, failure, errSeen, sawStop, quota>>

PoolClose(p) ==
  /\ proc = "running"
  /\ ~poolClosed[p]
  /\ poolClosed' = [poolClosed EXCEPT ![p] = TRUE]
  /\ UNCHANGED <<pureVars, proc, stopped, sd, listenerOpen, accepted, numWorkers, sem,
                 semClosed, pool, wk, hpc, hi, results, resClosed, conn,
                 replied, sent, got, exitWhy, failure, errSeen, taken,
                 delivered, sawStop, faults, quota>>

PoolStages == {"canny", "quad"}

PoolNext ==
  \/ \E c \in ConnIds, s \in PoolStages, f \in {"nil", "func"} : PoolSubmit(c, s, f)
  \/ \E c \in ConnIds, s \in PoolStages : PoolReceive(c, s)
  \/ \E p \in Pools : PoolClose(p)
  \/ \E p \in Pools : WorkerTake(p)
  \/ \E p \in Pools : WorkerRun(p)
  \/ \E p \in Pools : WorkerStop(p)

InitPool ==
  /\ numWorkers \in 1..MaxWorkers
  /\ InitServer({1}, 0)
  /\ GeometryOff

SpecPool == InitPool /\ [][PoolNext]_vars

(* --------------------------- specifications ---------------------------- *)

ServerNext ==
  \/ AcceptConn
  \/ MainExit
  \/ Interrupt
  \/ ShutdownStep
  \/ \E c \in ConnIds : AcquireSemaphore(c)
  \/ \E c \in ConnIds : ReceiveImage(c)
  \/ \E c \in ConnIds : DispatchGray(c)
  \/ \E c \in ConnIds : CollectGray(c)
  \/ \E c \in ConnIds : DispatchCanny(c)
  \/ \E c \in ConnIds : CollectCanny(c)
  \/ \E c \in ConnIds : DispatchBfs(c)
  \/ \E c \in ConnIds : CollectBfs(c)
  \/ \E c \in ConnIds : DispatchQuad(c)
  \/ \E c \in ConnIds : CollectQuad(c)
  \/ \E c \in ConnIds : SendReply(c)
  \/ \E p \in Pools : WorkerTake(p)
  \/ \E p \in Pools : WorkerRun(p)
  \/ \E p \in Pools : WorkerStop(p)

\* The server with numWorkers workers per pool and n connections.
Init ==
  \E w \in 1..MaxWorkers, n \in 1..MaxConns :
    /\ w + n <= MaxLoad
    /\ numWorkers = w
    /\ InitServer(1..n, n)
    /\ GeometryOff

Next == ServerNext

Spec == Init /\ [][Next]_vars

\* The server with one worker per pool and one connection more than the
\* semaphore admits; MaxSemRequests of the clients send their request.
InitSem ==
  /\ numWorkers = 1
  /\ InitServer(1..(SemCap + 1), MaxSemRequests)
  /\ GeometryOff

SpecSem == InitSem /\ [][Next]_vars

(* ------------------- the client's output file name -------------------- *)
\* Client.run after sendImage. The names of the sequence are numbered:
\* 0 is "output_" + base, k >= 1 is fmt.Sprintf("output_%d_%s", k, base);
\* the names of one basename are pairwise different. files is the set of the
\* names that exist; other processes create and remove files meanwhile.

notClient == <<serverVars, geomVars, replyVars, quadSt, cannySt, bfsSt, recvSt,
               sendSt, capSt, areaSt, graySt>>

\* A name is reported missing when it is missing or is the first name.
IsNotExistOrFirst(files, name) == name \notin files \/ name = 0

\* os.Stat(newFileName) fails with an error for which os.IsNotExist holds.
IsNotExist(files, name) == name \notin files

\* One iteration of the `for` loop: break, or the next name of the sequence.
ClientStat ==
  /\ clientSt.pc = "stat"
  /\ clientSt.newFileName <= MaxNames + 1
  /\ IF IsNotExist(clientSt.files, clientSt.newFileName)
       THEN clientSt' = [clientSt EXCEPT !.pc = "create",
                                         !.atChoice = clientSt.files]
       ELSE clientSt' = [clientSt EXCEPT
              !.skipped = @ \cup {clientSt.newFileName},
              !.newFileName = clientSt.fileIndex,
              !.fileIndex = @ + 1]
  /\ UNCHANGED <<notClient, numWorkers>>

\* os.Create(newFileName): creates the file or truncates an existing one.
ClientCreate ==
  /\ clientSt.pc = "create"
  /\ clientSt' = [clientSt EXCEPT
       !.pc = "done",
       !.truncated = clientSt.newFileName \in clientSt.files,
       !.files = @ \cup {clientSt.newFileName}]
  /\ UNCHANGED <<notClient, numWorkers>>

\* Another process creates or removes a file of the directory.
OtherProcess ==
  /\ clientSt.pc \in {"stat", "create"}
  /\ clientSt.ops < MaxFileOps
  /\ \E k \in 0..MaxNames :
       clientSt' = [clientSt EXCEPT
         !.ops = @ + 1,
         !.files = IF k \in @ THEN @ \ {k} ELSE @ \cup {k}]
  /\ UNCHANGED <<notClient, numWorkers>>

ClientNext ==
  \/ ClientStat
  \/ ClientCreate
  \/ OtherProcess

\* newFileName := "output_" + base; fileIndex := 1
InitClient ==
  /\ numWorkers = 1
  /\ InitServer({}, 0)
  /\ ReplyOff
  /\ DataOff({"client"})
  /\ imgW = 0 /\ imgH = 0 /\ spc = "off" /\ si = 0 /\ bands = {}
  /\ cannyResults = <<>> /\ drawn = <<>> /\ cpc = "off"
  /\ corner1 = ZR.Min /\ corner2 = ZR.Min /\ scanned = 0 /\ contourSeen = {}
  /\ crop = ZR
  /\ \E fs \in SUBSET (0..(MaxNames - 1)) :
       clientSt = [pc |-> "stat", files |-> fs, newFileName |-> 0,
                   fileIndex |-> 1, skipped |-> {}, atChoice |-> {},
                   truncated |-> FALSE, ops |-> 0]

SpecClient == InitClient /\ [][ClientNext]_vars

(* ------------------------------ scheduling ----------------------------- *)
\* The Go scheduler runs every goroutine that can take a step: each handler,
\* each pool's workers, the shutdown goroutine and the accept loop's return.
\* The signal and the arrival of connections are left to the environment.

HandlerStep(c) ==
  /\ c \in ConnIds
  /\ \/ AcquireSemaphore(c)
     \/ ReceiveImage(c)
     \/ DispatchGray(c)
     \/ CollectGray(c)
     \/ DispatchCanny(c)
     \/ CollectCanny(c)
     \/ DispatchBfs(c)
     \/ CollectBfs(c)
     \/ DispatchQuad(c)
     \/ CollectQuad(c)
     \/ SendReply(c)

Fairness ==
  /\ \A c \in 1..(SemCap + 1) : WF_vars(HandlerStep(c))
  /\ \A p \in Pools : WF_vars(WorkerTake(p))
  /\ \A p \in Pools : WF_vars(WorkerRun(p))
  /\ \A p \in Pools : WF_vars(WorkerStop(p))
  /\ WF_vars(ShutdownStep)
  /\ WF_vars(MainExit)

SpecLive == Spec /\ Fairness

SpecSemLive == SpecSem /\ Fairness

\* The pools under the generic caller, with the workers scheduled.
SpecPoolLive ==
  /\ SpecPool
  /\ \A p \in Pools : WF_vars(WorkerTake(p))
  /\ \A p \in Pools : WF_vars(WorkerRun(p))
  /\ \A p \in Pools : WF_vars(WorkerStop(p))

(* ------------------- band split and stitching (rows) ------------------- *)
\* The rows of handleConnection's band arithmetic. Every rectangle of this
\* code spans the whole width, so a rectangle is its interval of rows; the
\* zero rectangle of an empty SubImage is the empty interval at row 0.

Min2(a, b) == IF a < b THEN a ELSE b
Max2(a, b) == IF a > b THEN a ELSE b

ZRows == [Min |-> 0, Max |-> 0]

\* image.Rect: the coordinates are swapped when Min > Max.
RectRows(y0, y1) == [Min |-> Min2(y0, y1), Max |-> Max2(y0, y1)]

\* Rectangle.Intersect: the zero rectangle when the intersection is empty.
IntersectRows(r, s) ==
  LET minY == Max2(r.Min, s.Min)
      maxY == Min2(r.Max, s.Max)
  IN IF minY >= maxY THEN ZRows ELSE [Min |-> minY, Max |-> maxY]

\* Rectangle.Add on the rows.
ShiftRows(r, d) == [Min |-> r.Min + d, Max |-> r.Max + d]

chunkSize == (imgH + numWorkers - 1) \div numWorkers

\* The band of iteration i without the overlapSize rows below it.
SubImageUpwardOnly(i) ==
  LET startY0 == i * chunkSize
      endY0 == startY0 + chunkSize
      startY == IF startY0 > overlapSize THEN startY0 - overlapSize ELSE startY0
      endY == IF endY0 > imgH THEN imgH ELSE endY0
  IN IntersectRows(RectRows(startY, endY), [Min |-> 0, Max |-> imgH])

\* subBounds of iteration i and the bounds of rgbaImg.SubImage(subBounds);
\* Grayscale and ApplyCannyEdgeDetection return an image of the same bounds.
SubImage(i) ==
  LET startY0 == i * chunkSize
      endY0 == startY0 + chunkSize + overlapSize
      startY == IF startY0 > overlapSize THEN startY0 - overlapSize ELSE startY0
      endY == IF endY0 > imgH THEN imgH ELSE endY0
  IN IntersectRows(RectRows(startY, endY), [Min |-> 0, Max |-> imgH])

\* The rows drawn when the whole height of the chunk is used.
DrawRowsFullHeight(i, chunk) ==
  LET startY == i * chunkSize
      chunkHeight == chunk.Max - chunk.Min
      r == RectRows(startY, startY + chunkHeight)
      orig == r.Min
      r1 == IntersectRows(r, [Min |-> 0, Max |-> imgH])
      r2 == IntersectRows(r1, ShiftRows([Min |-> chunk.Min, Max |-> chunk.Max],
                                        orig - startY))
  IN r2.Min..(r2.Max - 1)

\* The rows draw.Draw writes for the chunk at position i of the sorted slice:
\* the rectangle is clipped to the destination and to the source bounds
\* moved by r.Min - sp.
DrawRows(i, chunk) ==
  LET startY == i * chunkSize
      chunkHeight == (chunk.Max - chunk.Min) - overlapSize
      r == RectRows(startY, startY + chunkHeight)
      orig == r.Min
      r1 == IntersectRows(r, [Min |-> 0, Max |-> imgH])
      r2 == IntersectRows(r1, ShiftRows([Min |-> chunk.Min, Max |-> chunk.Max],
                                        orig - startY))
  IN r2.Min..(r2.Max - 1)

\* sort.Slice by Rect.Min.Y: some ordering of the slice that is sorted.
SortedOrders(sq) ==
  {t \in [1..Len(sq) -> {sq[k] : k \in 1..Len(sq)}] :
     /\ \A k \in 1..Len(sq) : \E j \in 1..Len(sq) : t[j] = sq[k]
     /\ \A j, k \in 1..Len(sq) : j < k => t[j].Min <= t[k].Min}

StitchDispatch ==
  /\ spc = "dispatch"
  /\ bands' = bands \cup {[band |-> si, Min |-> SubImage(si).Min,
                           Max |-> SubImage(si).Max]}
  /\ si' = si + 1
  /\ spc' = IF si + 1 >= numWorkers THEN "collect" ELSE "dispatch"
  /\ UNCHANGED <<serverVars, replyVars, dataVars, imgW, imgH, cannyResults, drawn, cpc, corner1,
                 corner2, scanned,
                 contourSeen, crop>>

\* results[i] = result.Output: the bands arrive in the order the workers
\* finish them.
StitchCollect ==
  /\ spc = "collect"
  /\ \E b \in bands :
       /\ bands' = bands \ {b}
       /\ cannyResults' = Append(cannyResults, b)
       /\ spc' = IF bands = {b} THEN "sort" ELSE "collect"
  /\ UNCHANGED <<serverVars, replyVars, dataVars, imgW, imgH, si, drawn, cpc, corner1, corner2,
                 scanned,
                 contourSeen, crop>>

StitchSort ==
  /\ spc = "sort"
  /\ cannyResults' \in SortedOrders(cannyResults)
  /\ si' = 0
  /\ spc' = "draw"
  /\ UNCHANGED <<serverVars, replyVars, dataVars, imgW, imgH, bands, drawn, cpc, corner1, corner2,
                 scanned,
                 contourSeen, crop>>

StitchDraw ==
  /\ spc = "draw"
  /\ LET chunk == cannyResults[si + 1] IN
       drawn' = [y \in DOMAIN drawn |->
                   IF y \in DrawRows(si, chunk)
                     THEN drawn[y] \cup {chunk.band} ELSE drawn[y]]
  /\ si' = si + 1
  /\ spc' = IF si + 1 >= numWorkers THEN "done" ELSE "draw"
  /\ UNCHANGED <<serverVars, replyVars, dataVars, imgW, imgH, bands, cannyResults, cpc, corner1,
                 corner2, scanned,
                 contourSeen, crop>>

StitchNext ==
  \/ StitchDispatch
  \/ StitchCollect
  \/ StitchSort
  \/ StitchDraw

InitStitch ==
  /\ numWorkers \in 1..MaxBands
  /\ InitServer({}, 0)
  /\ ReplyOff
  /\ DataOff({})
  /\ imgW = 1
  /\ imgH \in 1..MaxHeight
  /\ spc = "dispatch"
  /\ si = 0
  /\ bands = {}
  /\ cannyResults = <<>>
  /\ drawn = [y \in 0..(imgH - 1) |-> {}]
  /\ cpc = "off"
  /\ corner1 = ZR.Min
  /\ corner2 = ZR.Min
  /\ scanned = 0
  /\ contourSeen = {}
  /\ crop = ZR

SpecStitch == InitStitch /\ [][StitchNext]_vars

(* ------------------------------ the crop ------------------------------- *)

\* The points a contour can hold: FindContoursBFS appends a point only when
\* IsWhite holds for it, and GrayAt is 0 outside the bounds of cannyImage.
ContourPointsUnclipped ==
  {[X |-> x, Y |-> y] : x \in (-1)..imgW, y \in (-1)..imgH}

ContourPoints ==
  {[X |-> x, Y |-> y] : x \in 0..(imgW - 1), y \in 0..(imgH - 1)}

\* The centre taken as the origin of the bounds.
CenterAtOrigin == [X |-> 0, Y |-> 0]

\* center := geometry.Point{X: img.Bounds().Dx() / 2, Y: img.Bounds().Dy() / 2}
Center == [X |-> imgW \div 2, Y |-> imgH \div 2]

\* image.Rect(x0, y0, x1, y1)
Rect(x0, y0, x1, y1) ==
  [Min |-> [X |-> Min2(x0, x1), Y |-> Min2(y0, y1)],
   Max |-> [X |-> Max2(x0, x1), Y |-> Max2(y0, y1)]]

\* One iteration of the loop of FindCorner over the contour.
FindCornerStep ==
  /\ cpc = "scan"
  /\ contourA4.Contour # NoContour.Contour
  /\ scanned < MaxPoints
  /\ \E point \in ContourPoints :
       /\ corner1' = [X |-> IF point.X < corner1.X THEN point.X ELSE corner1.X,
                      Y |-> IF point.Y < corner1.Y THEN point.Y ELSE corner1.Y]
       /\ corner2' = [X |-> IF point.X > corner2.X THEN point.X ELSE corner2.X,
                      Y |-> IF point.Y > corner2.Y THEN point.Y ELSE corner2.Y]
       /\ contourSeen' = contourSeen \cup {point}
  /\ scanned' = scanned + 1
  /\ UNCHANGED <<serverVars, replyVars, dataVars, imgW, imgH, spc, si, bands, cannyResults, drawn,
                 cpc, crop>>

\* FindCorner returns {corner1, corner2}; the handler builds the rectangle.
CropRect ==
  /\ cpc = "scan"
  /\ crop' = Rect(corner1.X, corner1.Y, corner2.X, corner2.Y)
  /\ cpc' = "cropped"
  /\ UNCHANGED <<serverVars, replyVars, dataVars, imgW, imgH, spc, si, bands, cannyResults, drawn,
                 corner1, corner2, scanned, contourSeen>>

\* png.Encode rejects an image of width or height 0 ("invalid image size");
\* jpeg.Encode only rejects sides of 65536 and more.
EncodeFails(fmt, r) ==
  fmt = "png" /\ (r.Max.X - r.Min.X <= 0 \/ r.Max.Y - r.Min.Y <= 0)

\* finalImage := image.NewRGBA(rect); sendImage(conn, finalImage, format):
\* imageToBuffer ends the process with log.Fatalf when the encoder fails.
SendCrop ==
  /\ cpc = "cropped"
  /\ replyOut' = IF EncodeFails(format, crop) THEN "fatal" ELSE "sent"
  /\ cpc' = "finished"
  /\ UNCHANGED <<serverVars, dataVars, imgW, imgH, spc, si, bands,
                 cannyResults, drawn, corner1, corner2, scanned,
                 contourSeen, crop,
                 contourA4, format>>

CornerNext ==
  \/ FindCornerStep
  \/ CropRect
  \/ SendCrop

InitCorner ==
  /\ numWorkers = 1
  /\ InitServer({}, 0)
  /\ DataOff({})
  /\ contourA4 \in {NoContour} \cup
                    {[Contour |-> 0, Area |-> a] : a \in 1..MaxArea}
  /\ format \in {"jpeg", "png"}
  /\ replyOut = "none"
  /\ imgW \in 1..MaxDim
  /\ imgH \in 1..MaxDim
  /\ spc = "off"
  /\ si = 0
  /\ bands = {}
  /\ cannyResults = <<>>
  /\ drawn = <<>>
  /\ cpc = "scan"
  /\ corner1 = Center
  /\ corner2 = Center
  /\ scanned = 0
  /\ contourSeen = {}
  /\ crop = ZR

SpecCorner == InitCorner /\ [][CornerNext]_vars

(* ---------------------- the Quadrilateral stage ------------------------ *)
\* bfsResult is the slice of contours in the order the Contours results were
\* appended; a contour is its index, and bfsResult[k + 1] is polygonArea of
\* the contour at index k.

\* The end index of slice i without the remainder.
QuadSliceEndEven(i, n) == (i + 1) * (n \div numWorkers)

\* end := (i + 1) * (len(bfsResult) / numWorkers), len(bfsResult) for the last.
QuadSliceEnd(i, n) ==
  IF i = numWorkers - 1 THEN n ELSE (i + 1) * (n \div numWorkers)

QuadSliceStart(i, n) == i * (n \div numWorkers)

RECURSIVE FindQuadrilateralFromAtLeast(_, _, _, _)
\* The loop with `area >= maxArea`.
FindQuadrilateralFromAtLeast(areas, k, end, q) ==
  IF k >= end THEN q
  ELSE FindQuadrilateralFromAtLeast(areas, k + 1, end,
         IF areas[k + 1] >= q.Area
           THEN [Contour |-> k, Area |-> areas[k + 1]] ELSE q)

RECURSIVE FindQuadrilateralFrom(_, _, _, _)
\* The loop of FindQuadrilateral over contours[k:end], best so far in q.
FindQuadrilateralFrom(areas, k, end, q) ==
  IF k >= end THEN q
  ELSE FindQuadrilateralFrom(areas, k + 1, end,
         IF areas[k + 1] > q.Area
           THEN [Contour |-> k, Area |-> areas[k + 1]] ELSE q)

FindQuadrilateral(areas, start, end) ==
  FindQuadrilateralFrom(areas, start, end, NoContour)

\* The handler takes whatever result it looks at.
LargerAreaAlways(c, sel) == c.Area >= 0

\* if contour.Area > contourA4.Area
LargerArea(c, sel) == c.Area > sel.Area

RECURSIVE SelectA4(_, _, _)
\* The selection loop over findQuadrilateralResult from position k.
SelectA4(res, k, sel) ==
  IF k > Len(res) THEN sel
  ELSE SelectA4(res, k + 1, IF LargerArea(res[k], sel) THEN res[k] ELSE sel)

notQuad == <<serverVars, geomVars, replyVars, cannySt, bfsSt, recvSt, sendSt,
             capSt,
  clientSt, areaSt, graySt>>

QuadDispatch ==
  /\ quadSt.pc = "dispatch"
  /\ LET i == quadSt.i
         n == Len(quadSt.bfsResult)
         start == QuadSliceStart(i, n)
         end == QuadSliceEnd(i, n)
     IN quadSt' = [quadSt EXCEPT
          !.slices = Append(@, [start |-> start, end |-> end]),
          !.tasks = @ \cup {[slice |-> i, start |-> start, end |-> end]},
          !.i = i + 1,
          !.pc = IF i + 1 >= numWorkers THEN "collect" ELSE "dispatch"]
  /\ UNCHANGED <<notQuad, numWorkers>>

\* A worker runs FindQuadrilateralWrapper on a slice; the handler appends the
\* results in the order they arrive.
QuadCollect ==
  /\ quadSt.pc = "collect"
  /\ \E t \in quadSt.tasks :
       quadSt' = [quadSt EXCEPT
         !.tasks = @ \ {t},
         !.arrival = Append(@, t.slice),
         !.findQuadrilateralResult =
            Append(@, FindQuadrilateral(quadSt.bfsResult, t.start, t.end)),
         !.pc = IF quadSt.tasks = {t} THEN "select" ELSE "collect"]
  /\ UNCHANGED <<notQuad, numWorkers>>

QuadSelect ==
  /\ quadSt.pc = "select"
  /\ quadSt' = [quadSt EXCEPT
       !.contourA4 = SelectA4(quadSt.findQuadrilateralResult, 1, NoContour),
       !.pc = "done"]
  /\ UNCHANGED <<notQuad, numWorkers>>

QuadNext ==
  \/ QuadDispatch
  \/ QuadCollect
  \/ QuadSelect

AreaSeqs == UNION {[1..n -> 0..MaxArea] : n \in 0..MaxContours}

InitQuad ==
  /\ numWorkers \in 1..MaxBands
  /\ InitServer({}, 0)
  /\ ReplyOff
  /\ DataOff({"quad"})
  /\ imgW = 0 /\ imgH = 0 /\ spc = "off" /\ si = 0 /\ bands = {}
  /\ cannyResults = <<>> /\ drawn = <<>> /\ cpc = "off"
  /\ corner1 = ZR.Min /\ corner2 = ZR.Min /\ scanned = 0 /\ contourSeen = {}
  /\ crop = ZR
  /\ \E a \in AreaSeqs :
       quadSt = [pc |-> "dispatch", bfsResult |-> a, i |-> 0, slices |-> <<>>,
                 tasks |-> {}, arrival |-> <<>>,
                 findQuadrilateralResult |-> <<>>, contourA4 |-> NoContour]

SpecQuad == InitQuad /\ [][QuadNext]_vars

(* --------------------------- FindContoursBFS --------------------------- *)
\* An edge map is the set `white` of its pixels with GrayAt(x, y).Y > 128
\* (IsWhite); GrayAt is 0 outside the image, so no pixel outside is white.

Pt(x, y) == [X |-> x, Y |-> y]

\* The four axis directions only.
directionsAxisOnly == <<Pt(0, 1), Pt(1, 0), Pt(0, -1), Pt(-1, 0)>>

\* var directions, in the order of the source.
directions == <<Pt(0, 1), Pt(1, 0), Pt(0, -1), Pt(-1, 0),
                Pt(-1, -1), Pt(-1, 1), Pt(1, -1), Pt(1, 1)>>

InRect(q, r) ==
  /\ r.Min.X <= q.X /\ q.X < r.Max.X
  /\ r.Min.Y <= q.Y /\ q.Y < r.Max.Y

\* The place of a pixel in the scan `for y ... for x ...` over bounds.
ScanIndex(q, r) == (q.Y - r.Min.Y) * (r.Max.X - r.Min.X) + (q.X - r.Min.X)

\* A component is kept from 50 points on.
KeepContourFrom50(n) == n >= 50

\* if len(contour) > 50
KeepContour(n) == n > 50

\* The neighbours appended when the search stays inside bounds.
NeighboursInBand(curr, white, visited) ==
  SelectSeq([k \in 1..Len(directions) |->
               Pt(curr.X + directions[k].X, curr.Y + directions[k].Y)],
            LAMBDA q : q \in white /\ q \notin visited
                         /\ InRect(q, bfsSt.bounds))

\* The neighbours of curr that are appended to the queue, in order.
Neighbours(curr, white, visited) ==
  SelectSeq([k \in 1..Len(directions) |->
               Pt(curr.X + directions[k].X, curr.Y + directions[k].Y)],
            LAMBDA q : q \in white /\ q \notin visited)

notBfs == <<serverVars, geomVars, replyVars, quadSt, recvSt, sendSt, capSt,
  clientSt, areaSt, graySt>>

\* The two for loops run to the next pixel that is white and not visited and
\* start a queue there, or run to the end of bounds.
BfsScan ==
  /\ bfsSt.pc = "scan"
  /\ LET cand == {q \in bfsSt.white \ bfsSt.visited : InRect(q, bfsSt.bounds)}
     IN IF cand = {}
          THEN bfsSt' = [bfsSt EXCEPT !.pc = "done"]
          ELSE LET p0 == CHOOSE q \in cand :
                           \A o \in cand : ScanIndex(q, bfsSt.bounds)
                                             <= ScanIndex(o, bfsSt.bounds)
               IN bfsSt' = [bfsSt EXCEPT !.pc = "bfs", !.queue = <<p0>>,
                                         !.contour = <<>>]
  /\ UNCHANGED <<notBfs, cannySt, numWorkers>>

\* One iteration of `for len(queue) > 0`.
BfsStep ==
  /\ bfsSt.pc = "bfs"
  /\ bfsSt.queue # <<>>
  /\ LET curr == Head(bfsSt.queue) IN
       IF curr \in bfsSt.visited
         THEN bfsSt' = [bfsSt EXCEPT !.queue = Tail(@)]
         ELSE bfsSt' = [bfsSt EXCEPT
                !.visited = @ \cup {curr},
                !.contour = Append(@, curr),
                !.queue = Tail(@) \o Neighbours(curr, bfsSt.white,
                                                bfsSt.visited \cup {curr})]
  /\ UNCHANGED <<notBfs, cannySt, numWorkers>>

\* The queue is empty: the contour is appended when it is long enough.
BfsClose ==
  /\ bfsSt.pc = "bfs"
  /\ bfsSt.queue = <<>>
  /\ bfsSt' = [bfsSt EXCEPT
       !.pc = "scan",
       !.contours = IF KeepContour(Len(bfsSt.contour))
                      THEN Append(@, bfsSt.contour) ELSE @]
  /\ UNCHANGED <<notBfs, cannySt, numWorkers>>

BfsNext ==
  \/ BfsScan
  \/ BfsStep
  \/ BfsClose

\* FindContoursBFS(img, bounds) at its first statement.
BfsStart(white, bounds) ==
  [pc |-> "scan", white |-> white, bounds |-> bounds, visited |-> {},
   queue |-> <<>>, contour |-> <<>>, contours |-> <<>>]

\* The edge maps of the runs: n white pixels that fill a grid of w columns row
\* by row, or that form a zigzag touching only at corners (w = 0), and a
\* number of isolated white pixels two rows below.
LayoutPixel(k, w) ==
  IF w = 0 THEN Pt(k, k % 2) ELSE Pt(k % w, k \div w)

EdgeMap(n, w, t) ==
  {LayoutPixel(k, w) : k \in 0..(n - 1)}
    \cup {Pt(2 * j, MaxPixels + 2) : j \in 0..(t - 1)}

\* The rectangles passed as bounds: the whole image, its first row, the rest.
ScanBounds ==
  {[Min |-> Pt(0, y0), Max |-> Pt(MaxPixels + 2, y1)] :
     <<y0, y1>> \in {<<0, MaxPixels + 3>>, <<0, 1>>, <<1, MaxPixels + 3>>}}

InitBfs ==
  /\ numWorkers = 1
  /\ InitServer({}, 0)
  /\ ReplyOff
  /\ DataOff({"bfs"})
  /\ imgW = 0 /\ imgH = 0 /\ spc = "off" /\ si = 0 /\ bands = {}
  /\ cannyResults = <<>> /\ drawn = <<>> /\ cpc = "off"
  /\ corner1 = ZR.Min /\ corner2 = ZR.Min /\ scanned = 0 /\ contourSeen = {}
  /\ crop = ZR
  /\ \E n \in 0..MaxPixels, w \in 0..MaxGridW, t \in 0..MaxTail,
        b \in ScanBounds :
       bfsSt = BfsStart(EdgeMap(n, w, t), b)

SpecBfs == InitBfs /\ [][BfsNext]_vars

(* ----------------------- ApplyCannyEdgeDetection ----------------------- *)
\* An *image.Gray is its rectangle and its pixels; GrayAt is 0 outside the
\* rectangle and SetGray outside it does nothing.

Abs(a) == IF a < 0 THEN -a ELSE a

Points(r) == {Pt(x, y) : x \in r.Min.X..(r.Max.X - 1), y \in r.Min.Y..(r.Max.Y - 1)}

GrayAt(img, x, y) ==
  IF InRect(Pt(x, y), img.Rect) THEN img.Pix[Pt(x, y)] ELSE 0

\* image.NewGray(bounds) with the pixels f sets; the others stay 0.
NewGray(r, f) == [Rect |-> r, Pix |-> [q \in Points(r) |-> f[q]]]

Taps(radius) == {Pt(kx, ky) : kx \in (-radius)..radius, ky \in (-radius)..radius}

\* GenerateGaussianKernel(5, 1.4): exp(-(x*x + y*y) / (2 * 1.4 * 1.4)) to four
\* digits; the common factor cancels in sum / weightSum.
GaussWeight(d) ==
  LET d2 == d.X * d.X + d.Y * d.Y
  IN CASE d2 = 0 -> 10000 [] d2 = 1 -> 7748 [] d2 = 2 -> 6003
       [] d2 = 4 -> 3604 [] d2 = 5 -> 2793 [] d2 = 8 -> 1299

RECURSIVE SumOver(_, _)
\* The sum of f over the set S.
SumOver(S, f) ==
  IF S = {} THEN 0
  ELSE LET e == CHOOSE o \in S : TRUE IN f[e] + SumOver(S \ {e}, f)

\* ApplyKernel: the weighted mean over the taps that fall inside the bounds,
\* converted to uint8. The quotient is taken exactly; the runs use gray values
\* for which the float64 quotient is exact as well.
ApplyKernel(img) ==
  NewGray(img.Rect,
    [q \in Points(img.Rect) |->
      LET inside == {d \in Taps(2) : InRect(Pt(q.X + d.X, q.Y + d.Y), img.Rect)}
          sum == SumOver(inside, [d \in inside |->
                   GrayAt(img, q.X + d.X, q.Y + d.Y) * GaussWeight(d)])
          weightSum == SumOver(inside, [d \in inside |-> GaussWeight(d)])
      IN sum \div weightSum])

\* GenerateSobelKernel(3) and GenerateSobelKernel(5): kernelX at tap d.
SobelX(size, d) ==
  IF size = 3
    THEN d.X * (2 - Abs(d.Y))
    ELSE CASE d.X = 0 -> 0
           [] Abs(d.X) = 1 -> d.X * (3 - Abs(d.Y))
           [] OTHER -> (d.X \div 2) * (4 - Abs(d.Y))

\* kernelY at tap d.
SobelY(size, d) ==
  IF size = 3
    THEN d.Y * (2 - Abs(d.X))
    ELSE IF d.X = 0 THEN 2 * d.Y ELSE d.Y

\* uint8(math.Min(magnitude, 255)) for magnitude = sqrt(n)
Magnitude(n) ==
  CHOOSE r \in 0..255 : r * r <= n /\ (r = 255 \/ (r + 1) * (r + 1) > n)

Interior(r, radius) ==
  {q \in Points(r) : /\ r.Min.X + radius <= q.X /\ q.X < r.Max.X - radius
                     /\ r.Min.Y + radius <= q.Y /\ q.Y < r.Max.Y - radius}

\* gx and gy of ApplySobelEdgeDetection at q; gradientAngles holds their angle.
SobelG(img, size, q) ==
  [gx |-> SumOver(Taps(size \div 2), [d \in Taps(size \div 2) |->
            GrayAt(img, q.X + d.X, q.Y + d.Y) * SobelX(size, d)]),
   gy |-> SumOver(Taps(size \div 2), [d \in Taps(size \div 2) |->
            GrayAt(img, q.X + d.X, q.Y + d.Y) * SobelY(size, d)])]

\* ApplySobelEdgeDetection: the gradient image; angles is g away from the
\* border and 0 elsewhere.
ApplySobelEdgeDetection(img, size) ==
  LET g == [q \in Points(img.Rect) |->
              IF q \in Interior(img.Rect, size \div 2)
                THEN SobelG(img, size, q) ELSE [gx |-> 0, gy |-> 0]]
  IN [output |-> NewGray(img.Rect,
                   [q \in Points(img.Rect) |->
                      Magnitude(g[q].gx * g[q].gx + g[q].gy * g[q].gy)]),
      angles |-> g]

\* ComputeDynamicThresholds: totalGradient and count; meanGradient is their
\* quotient, NaN when count is 0.
ComputeDynamicThresholds(img) ==
  LET gradient == ApplySobelEdgeDetection(img, 5).output
      inner == Interior(img.Rect, 1)
  IN [total |-> SumOver(inner, gradient.Pix),
      count |-> Cardinality(inner)]

\* float64(pixel) >= highThreshold, highThreshold = 1.5 * meanGradient; false
\* when the threshold is NaN.
AtLeastHigh(pixel, thr) ==
  thr.count > 0 /\ 2 * pixel * thr.count >= 3 * thr.total

\* float64(pixel) >= lowThreshold, lowThreshold = 0.4 * highThreshold
AtLeastLow(pixel, thr) ==
  thr.count > 0 /\ 5 * pixel * thr.count >= 3 * thr.total

\* The two neighbours nonMaxSuppression compares with, from the angle of
\* (gx, gy): tan 22.5 = sqrt 2 - 1 and tan 67.5 = sqrt 2 + 1.
NmsNeighbours(g, q) ==
  LET ax == Abs(g.gx)
      ay == Abs(g.gy)
      flat == (ax + ay) * (ax + ay) <= 2 * ax * ax
      steep == ay > ax /\ (ay - ax) * (ay - ax) > 2 * ax * ax
      same == (g.gx > 0 /\ g.gy > 0) \/ (g.gx < 0 /\ g.gy < 0)
  IN CASE flat -> <<Pt(q.X - 1, q.Y), Pt(q.X + 1, q.Y)>>
       [] ~flat /\ steep -> <<Pt(q.X, q.Y - 1), Pt(q.X, q.Y + 1)>>
       [] ~flat /\ ~steep /\ same -> <<Pt(q.X - 1, q.Y - 1), Pt(q.X + 1, q.Y + 1)>>
       [] OTHER -> <<Pt(q.X - 1, q.Y + 1), Pt(q.X + 1, q.Y - 1)>>

\* The pixels of `for y := 1; y < bounds.Max.Y-1` and the same for x.
FromOne(r) ==
  {q \in Points(r) : 1 <= q.X /\ q.X < r.Max.X - 1 /\ 1 <= q.Y /\ q.Y < r.Max.Y - 1}

nonMaxSuppression(gradient, angles) ==
  NewGray(gradient.Rect,
    [q \in Points(gradient.Rect) |->
      IF q \in FromOne(gradient.Rect)
        THEN LET nb == NmsNeighbours(angles[q], q)
                 mag == gradient.Pix[q]
             IN IF /\ mag >= GrayAt(gradient, nb[1].X, nb[1].Y)
                   /\ mag >= GrayAt(gradient, nb[2].X, nb[2].Y)
                  THEN mag ELSE 0
        ELSE 0])

RECURSIVE TrackWeakPromoteOnly(_, _)
\* The second loop without its else branch: a weak pixel with no strong
\* neighbour is left as it is.
TrackWeakPromoteOnly(output, todo) ==
  IF todo = {} THEN output
  ELSE LET q == CHOOSE o \in todo :
                  \A e \in todo : ScanIndex(o, output.Rect) <= ScanIndex(e, output.Rect)
           v == IF output.Pix[q] # 75 THEN output.Pix[q]
                ELSE IF \E k \in 1..Len(directions) :
                          GrayAt(output, q.X + directions[k].X,
                                         q.Y + directions[k].Y) = 255
                       THEN 255 ELSE 75
       IN TrackWeakPromoteOnly([output EXCEPT !.Pix[q] = v], todo \ {q})

RECURSIVE TrackWeak(_, _)
\* The second loop of hysteresisThresholding, in scan order and in place: a
\* weak pixel becomes strong when a neighbour is strong, else 0.
TrackWeak(output, todo) ==
  IF todo = {} THEN output
  ELSE LET q == CHOOSE o \in todo :
                  \A e \in todo : ScanIndex(o, output.Rect) <= ScanIndex(e, output.Rect)
           v == IF output.Pix[q] # 75 THEN output.Pix[q]
                ELSE IF \E k \in 1..Len(directions) :
                          GrayAt(output, q.X + directions[k].X,
                                         q.Y + directions[k].Y) = 255
                       THEN 255 ELSE 0
       IN TrackWeak([output EXCEPT !.Pix[q] = v], todo \ {q})

\* The first loop of hysteresisThresholding: strong, weak or 0.
Classify(img, thr) ==
  NewGray(img.Rect,
    [q \in Points(img.Rect) |-> IF AtLeastHigh(img.Pix[q], thr) THEN 255
                                ELSE IF AtLeastLow(img.Pix[q], thr) THEN 75
                                ELSE 0])

hysteresisThresholding(img, thr) ==
  TrackWeak(Classify(img, thr), FromOne(img.Rect))

notCanny == <<serverVars, geomVars, replyVars, quadSt, recvSt, sendSt, capSt,
  clientSt, areaSt, graySt>>

\* blurred := ApplyKernel(img, kernel)
CannyBlur ==
  /\ cannySt.pc = "blur"
  /\ cannySt' = [cannySt EXCEPT !.pc = "thresholds",
                                !.blurred = ApplyKernel(cannySt.img)]
  /\ UNCHANGED <<notCanny, bfsSt, numWorkers>>

\* lowThreshold, highThreshold := ComputeDynamicThresholds(blurred, 1.5)
CannyThresholds ==
  /\ cannySt.pc = "thresholds"
  /\ cannySt' = [cannySt EXCEPT !.pc = "sobel",
                                !.thr = ComputeDynamicThresholds(cannySt.blurred)]
  /\ UNCHANGED <<notCanny, bfsSt, numWorkers>>

\* edges, gradientAngles := ApplySobelEdgeDetection(blurred, sobelX, sobelY)
\* nms := nonMaxSuppression(*edges, gradientAngles)
CannySobelNms ==
  /\ cannySt.pc = "sobel"
  /\ LET e == ApplySobelEdgeDetection(cannySt.blurred, 3) IN
       cannySt' = [cannySt EXCEPT !.pc = "hysteresis",
                                  !.nms = nonMaxSuppression(e.output, e.angles)]
  /\ UNCHANGED <<notCanny, bfsSt, numWorkers>>

\* finalEdges := hysteresisThresholding(nms, lowThreshold, highThreshold);
\* the contours of the edge map are then extracted over its bounds.
CannyHysteresis ==
  /\ cannySt.pc = "hysteresis"
  /\ LET out == hysteresisThresholding(cannySt.nms, cannySt.thr) IN
       /\ cannySt' = [cannySt EXCEPT !.pc = "done", !.out = out]
       /\ bfsSt' = BfsStart({q \in Points(out.Rect) : out.Pix[q] > 128}, out.Rect)
  /\ UNCHANGED <<notCanny, numWorkers>>

CannyNext ==
  \/ CannyBlur
  \/ CannyThresholds
  \/ CannySobelNms
  \/ CannyHysteresis
  \/ BfsScan
  \/ BfsStep
  \/ BfsClose

\* The uint8 values 0 and the powers of two.
GrayLevels == {v \in {0} \cup {2 ^ b : b \in 0..MaxGrayBits} : v <= 255}

\* A band whose pixels all have the gray value g.
SolidBand(w, h, y0, g) ==
  LET r == [Min |-> Pt(0, y0), Max |-> Pt(w, y0 + h)]
  IN NewGray(r, [q \in Points(r) |-> g])

InitCanny ==
  /\ numWorkers = 1
  /\ InitServer({}, 0)
  /\ ReplyOff
  /\ DataOff({"canny"})
  /\ imgW = 0 /\ imgH = 0 /\ spc = "off" /\ si = 0 /\ bands = {}
  /\ cannyResults = <<>> /\ drawn = <<>> /\ cpc = "off"
  /\ corner1 = ZR.Min /\ corner2 = ZR.Min /\ scanned = 0 /\ contourSeen = {}
  /\ crop = ZR
  /\ \E w \in 1..MaxBandDim, h \in 1..MaxBandDim, y0 \in 0..MaxOffset,
        g \in GrayLevels :
       cannySt = [pc |-> "blur", img |-> SolidBand(w, h, y0, g),
                  blurred |-> SolidBand(0, 0, 0, 0),
                  thr |-> [total |-> 0, count |-> 0],
                  nms |-> SolidBand(0, 0, 0, 0), out |-> SolidBand(0, 0, 0, 0)]

SpecCanny == InitCanny /\ [][CannyNext]_vars

\* The images nonMaxSuppression returns for a rectangle: NewGray is 0 and
\* only the pixels of its two loops are set.
NmsOutputs(r) ==
  {NewGray(r, [q \in Points(r) |-> IF q \in FromOne(r) THEN f[q] ELSE 0]) :
     f \in [FromOne(r) -> 0..MaxMagnitude]}

\* ApplyCannyEdgeDetection at the call of hysteresisThresholding, for small
\* bands: nms is any output of nonMaxSuppression and the thresholds come from
\* a totalGradient over the count pixels ComputeDynamicThresholds visits.
InitHysteresis ==
  /\ numWorkers = 1
  /\ InitServer({}, 0)
  /\ ReplyOff
  /\ DataOff({"canny", "bfs"})
  /\ imgW = 0 /\ imgH = 0 /\ spc = "off" /\ si = 0 /\ bands = {}
  /\ cannyResults = <<>> /\ drawn = <<>> /\ cpc = "off"
  /\ corner1 = ZR.Min /\ corner2 = ZR.Min /\ scanned = 0 /\ contourSeen = {}
  /\ crop = ZR
  /\ bfsSt = Off
  /\ \E w \in 3..MaxNmsW, h \in 3..MaxNmsH, y0 \in 0..MaxOffset,
        total \in 0..MaxTotalGradient :
       LET r == [Min |-> Pt(0, y0), Max |-> Pt(w, y0 + h)] IN
       \E n \in NmsOutputs(r) :
         cannySt = [pc |-> "hysteresis", img |-> SolidBand(0, 0, 0, 0),
                    blurred |-> SolidBand(0, 0, 0, 0),
                    thr |-> [total |-> total,
                             count |-> Cardinality(Interior(r, 1))],
                    nms |-> n, out |-> SolidBand(0, 0, 0, 0)]

HysteresisNext ==
  \/ CannyHysteresis
  \/ BfsScan
  \/ BfsStep
  \/ BfsClose

SpecHysteresis == InitHysteresis /\ [][HysteresisNext]_vars

(* ----------------------------- polygonArea ----------------------------- *)
\* The terms are products of pixel coordinates, far inside the range of int
\* and of the integers float64 holds exactly, so `area` is an integer;
\* math.Abs(area) / 2.0 is written as the fraction it is.

notArea == <<serverVars, geomVars, replyVars, quadSt, cannySt, bfsSt, recvSt,
             sendSt, capSt, clientSt, graySt>>

\* The next index without the wrap: the closing edge is left out.
NextPointNoWrap(i, n) == IF i + 1 < n THEN i + 1 ELSE i

\* j := (i + 1) % n
NextPoint(i, n) == (i + 1) % n

\* area += float64(points[i].X*points[j].Y - points[j].X*points[i].Y)
AreaStep ==
  /\ areaSt.pc = "loop"
  /\ areaSt.i < Len(areaSt.points)
  /\ LET i == areaSt.i
         j == NextPoint(i, Len(areaSt.points))
         a == areaSt.points[i + 1]
         b == areaSt.points[j + 1]
     IN areaSt' = [areaSt EXCEPT !.area = @ + (a.X * b.Y - b.X * a.Y),
                                 !.i = i + 1]
  /\ UNCHANGED notArea

\* return math.Abs(area) / 2.0
AreaReturn ==
  /\ areaSt.pc = "loop"
  /\ areaSt.i >= Len(areaSt.points)
  /\ areaSt' = [areaSt EXCEPT !.pc = "done",
                              !.ret = [Num |-> Abs(areaSt.area), Den |-> 2]]
  /\ UNCHANGED notArea

AreaNext ==
  \/ AreaStep
  \/ AreaReturn

\* The contours polygonArea is called with: up to MaxAreaPoints points of a
\* small grid, in any order and with repetitions.
AreaContours ==
  UNION {[1..n -> {Pt(x, y) : x, y \in 0..MaxCoord}] : n \in 0..MaxAreaPoints}

InitArea ==
  /\ numWorkers = 1
  /\ InitServer({}, 0)
  /\ ReplyOff
  /\ DataOff({"area"})
  /\ imgW = 0 /\ imgH = 0 /\ spc = "off" /\ si = 0 /\ bands = {}
  /\ cannyResults = <<>> /\ drawn = <<>> /\ cpc = "off"
  /\ corner1 = ZR.Min /\ corner2 = ZR.Min /\ scanned = 0 /\ contourSeen = {}
  /\ crop = ZR
  /\ \E c \in AreaContours :
       areaSt = [pc |-> "loop", points |-> c, i |-> 0, area |-> 0,
                 ret |-> [Num |-> 0, Den |-> 1]]

SpecArea == InitArea /\ [][AreaNext]_vars

(* ------------------------------ Grayscale ------------------------------ *)
\* img.At(x, y).RGBA() returns three 16-bit channel values; an 8-bit source
\* gives v * 257, a 16-bit PNG or a pixel with alpha gives any value.

notGray == <<serverVars, geomVars, replyVars, quadSt, cannySt, bfsSt, recvSt,
             sendSt, capSt, clientSt, areaSt>>

\* uint8(0.299*float64(r8) + 0.587*float64(g8) + 0.114*float64(b8)) for
\* s = 299*r8 + 587*g8 + 114*b8. The exact sum is s / 1000; the float64 sum
\* is within 1e-13 of it, so the truncation is s / 1000 rounded down unless
\* s / 1000 is a whole number above 0, where the rounding of the three
\* products and two additions (fused or not, as the build chooses) gives
\* either that number or a value just below it.
FloatTrunc(s) ==
  IF s % 1000 = 0 /\ s > 0 THEN {s \div 1000 - 1, s \div 1000}
                          ELSE {s \div 1000}

\* The body of the two loops of Grayscale for one pixel.
GrayPixel ==
  /\ graySt.pc = "pixel"
  /\ LET r8 == graySt.r \div 256
         g8 == graySt.g \div 256
         b8 == graySt.b \div 256
     IN \E v \in FloatTrunc(299 * r8 + 587 * g8 + 114 * b8) :
          graySt' = [graySt EXCEPT !.pc = "done", !.grayValue = v % 256]
  /\ UNCHANGED notGray

GrayNext ==
  \/ GrayPixel

\* The channel values of the runs: high byte 0..MaxChannel with the low byte
\* 0, equal to the high byte (an 8-bit source) or 255.
ChannelValues ==
  UNION {{256 * h, 256 * h + h, 256 * h + 255} : h \in 0..MaxChannel}

InitGray ==
  /\ numWorkers = 1
  /\ InitServer({}, 0)
  /\ ReplyOff
  /\ DataOff({"gray"})
  /\ imgW = 0 /\ imgH = 0 /\ spc = "off" /\ si = 0 /\ bands = {}
  /\ cannyResults = <<>> /\ drawn = <<>> /\ cpc = "off"
  /\ corner1 = ZR.Min /\ corner2 = ZR.Min /\ scanned = 0 /\ contourSeen = {}
  /\ crop = ZR
  /\ \E r, g, b \in ChannelValues :
       graySt = [pc |-> "pixel", r |-> r, g |-> g, b |-> b, grayValue |-> 0]

SpecGray == InitGray /\ [][GrayNext]_vars

(* ----------------------------- receiveImage ---------------------------- *)
\* Bytes are letters; the marker is the three bytes "EOF".

EOFMarker == <<"E", "O", "F">>

Bytes == {"E", "O", "F", "x"}

\* bytes.Contains(b, sub)
Contains(b, sub) ==
  \E k \in 0..(Len(b) - Len(sub)) : SubSeq(b, k + 1, k + Len(sub)) = sub

HasSuffix(b, sub) ==
  Len(b) >= Len(sub) /\ SubSeq(b, Len(b) - Len(sub) + 1, Len(b)) = sub

\* bytes.TrimSuffix(b, suffix)
TrimSuffix(b, suffix) ==
  IF HasSuffix(b, suffix) THEN SubSeq(b, 1, Len(b) - Len(suffix)) ELSE b

notRecv == <<serverVars, geomVars, replyVars, quadSt, cannySt, bfsSt, sendSt,
             capSt,
  clientSt, areaSt, graySt>>

\* n, err := conn.Read(buffer) with err == nil; dataBuffer.Write(buffer[:n]);
\* the loop ends when dataBuffer contains the marker.
RecvRead ==
  /\ recvSt.pc = "read"
  /\ \E n \in 1..bufferSize :
       /\ n <= Len(recvSt.wire)
       /\ LET buf == recvSt.dataBuffer \o SubSeq(recvSt.wire, 1, n) IN
            recvSt' = [recvSt EXCEPT
              !.wire = SubSeq(@, n + 1, Len(@)),
              !.dataBuffer = buf,
              !.pc = IF Contains(buf, EOFMarker) THEN "decode" ELSE "read"]
  /\ UNCHANGED <<notRecv, numWorkers>>

\* conn.Read returns io.EOF: the client closed after its last byte.
RecvEOF ==
  /\ recvSt.pc = "read"
  /\ recvSt.wire = <<>>
  /\ recvSt.closes
  /\ recvSt' = [recvSt EXCEPT !.pc = "decode"]
  /\ UNCHANGED <<notRecv, numWorkers>>

\* data = bytes.TrimSuffix(data, []byte("EOF")); image.Decode(&dataBuffer)
RecvDecode ==
  /\ recvSt.pc = "decode"
  /\ recvSt' = [recvSt EXCEPT
       !.data = TrimSuffix(recvSt.dataBuffer, EOFMarker),
       !.decoded = recvSt.dataBuffer,
       !.pc = "done"]
  /\ UNCHANGED <<notRecv, numWorkers>>

RecvNext ==
  \/ RecvRead
  \/ RecvEOF
  \/ RecvDecode

Payloads == UNION {[1..n -> Bytes] : n \in 0..MaxPayload}

\* A request is a payload followed by the marker; a client may also close
\* the connection after the payload without sending the marker.
InitRecv ==
  /\ numWorkers = 1
  /\ InitServer({}, 0)
  /\ ReplyOff
  /\ DataOff({"recv"})
  /\ imgW = 0 /\ imgH = 0 /\ spc = "off" /\ si = 0 /\ bands = {}
  /\ cannyResults = <<>> /\ drawn = <<>> /\ cpc = "off"
  /\ corner1 = ZR.Min /\ corner2 = ZR.Min /\ scanned = 0 /\ contourSeen = {}
  /\ crop = ZR
  /\ \E pl \in Payloads, marked \in BOOLEAN :
       recvSt = [pc |-> "read", payload |-> pl, marked |-> marked,
                 closes |-> ~marked,
                 wire |-> IF marked THEN pl \o EOFMarker ELSE pl,
                 dataBuffer |-> <<>>, data |-> <<>>, decoded |-> <<>>]

SpecRecv == InitRecv /\ [][RecvNext]_vars

(* ------------------------------ sendImage ------------------------------ *)
\* The encoded buffer is data[0:dataLen]; a write is the index it starts at,
\* the number of bytes offered and the number the connection accepted.

notSend == <<serverVars, geomVars, replyVars, quadSt, cannySt, bfsSt, recvSt,
             capSt,
  clientSt, areaSt, graySt>>

\* The loop goes on after the bytes it offered.
AdvanceByChunk(done, n, chunk) == done + chunk

\* sent += n
Advance(done, n, chunk) == done + n

\* The byte counts of a write that accepts fewer bytes than were offered.
ShortCounts(chunk) == {n \in {0, 1, chunk - 1} : n < chunk}

\* One iteration of `for sent < dataLen`: the write accepts all bytes, or
\* fewer with an error (log.Fatalf), or fewer without one.
SendWrite ==
  /\ sendSt.pc = "loop"
  /\ sendSt.sent < sendSt.dataLen
  /\ LET chunk == IF sendSt.dataLen - sendSt.sent < bufferSize
                        THEN sendSt.dataLen - sendSt.sent ELSE bufferSize
     IN \E n \in ShortCounts(chunk) \cup {chunk}, err \in BOOLEAN :
          /\ n = chunk => ~err
          /\ n < chunk => sendSt.shorts < MaxShortWrites
          /\ sendSt' = [sendSt EXCEPT
               !.writes = Append(@, [from |-> sendSt.sent,
                                     offered |-> chunk, n |-> n]),
               !.shorts = IF n < chunk THEN @ + 1 ELSE @,
               !.sent = IF err THEN @ ELSE Advance(@, n, chunk),
               !.pc = IF err THEN "fatal" ELSE "loop"]
  /\ UNCHANGED <<notSend, numWorkers>>

\* The loop condition fails: sendImage logs and returns.
SendReturn ==
  /\ sendSt.pc = "loop"
  /\ sendSt.sent >= sendSt.dataLen
  /\ sendSt' = [sendSt EXCEPT !.pc = "returned"]
  /\ UNCHANGED <<notSend, numWorkers>>

SendNext ==
  \/ SendWrite
  \/ SendReturn

InitSend ==
  /\ numWorkers = 1
  /\ InitServer({}, 0)
  /\ ReplyOff
  /\ DataOff({"send"})
  /\ imgW = 0 /\ imgH = 0 /\ spc = "off" /\ si = 0 /\ bands = {}
  /\ cannyResults = <<>> /\ drawn = <<>> /\ cpc = "off"
  /\ corner1 = ZR.Min /\ corner2 = ZR.Min /\ scanned = 0 /\ contourSeen = {}
  /\ crop = ZR
  /\ \E len \in 0..MaxDataLen :
       sendSt = [pc |-> "loop", dataLen |-> len, sent |-> 0, writes |-> <<>>,
                 shorts |-> 0]

SpecSend == InitSend /\ [][SendNext]_vars

(* ------------------ one result channel and its tasks ------------------- *)
\* The Quadrilateral stage of one connection by numbers: i tasks dispatched,
\* q of them buffered in findQuadrilateralChan, w held by workers, r results
\* buffered in resultFindQuadrilateralChan, got results collected.

notCap == <<serverVars, geomVars, replyVars, quadSt, cannySt, bfsSt, recvSt,
            sendSt,
  clientSt, areaSt, graySt>>

\* workerChannels.findQuadrilateralChan <- task
CapDispatch ==
  /\ capSt.pc = "dispatch"
  /\ capSt.q < PoolCap
  /\ capSt' = [capSt EXCEPT
       !.i = @ + 1, !.q = @ + 1,
       !.pc = IF capSt.i + 1 >= numWorkers THEN "collect" ELSE "dispatch"]
  /\ UNCHANGED <<notCap, numWorkers>>

\* for task := range tasks: a worker that holds no task takes one.
CapTake ==
  /\ capSt.q > 0
  /\ capSt.w < numWorkers
  /\ capSt' = [capSt EXCEPT !.q = @ - 1, !.w = @ + 1]
  /\ UNCHANGED <<notCap, numWorkers>>

\* task.ResultChan <- task: possible while the channel has room.
CapDeliver ==
  /\ capSt.w > 0
  /\ capSt.r < ResultCap
  /\ capSt' = [capSt EXCEPT !.w = @ - 1, !.r = @ + 1]
  /\ UNCHANGED <<notCap, numWorkers>>

\* case result := <-resultFindQuadrilateralChan
CapCollect ==
  /\ capSt.pc = "collect"
  /\ capSt.r > 0
  /\ capSt' = [capSt EXCEPT
       !.r = @ - 1, !.got = @ + 1,
       !.pc = IF capSt.got + 1 >= numWorkers THEN "returned" ELSE "collect"]
  /\ UNCHANGED <<notCap, numWorkers>>

\* case <-server.stopCtx.Done(): return
CapShutdown ==
  /\ capSt.pc = "collect"
  /\ capSt' = [capSt EXCEPT !.pc = "returned"]
  /\ UNCHANGED <<notCap, numWorkers>>

CapNext ==
  \/ CapDispatch
  \/ CapTake
  \/ CapDeliver
  \/ CapCollect
  \/ CapShutdown

\* var numWorkers = runtime.NumCPU()
InitCap ==
  /\ numWorkers \in (MaxCpus - CpuSpan)..MaxCpus
  /\ InitServer({}, 0)
  /\ ReplyOff
  /\ DataOff({"cap"})
  /\ imgW = 0 /\ imgH = 0 /\ spc = "off" /\ si = 0 /\ bands = {}
  /\ cannyResults = <<>> /\ drawn = <<>> /\ cpc = "off"
  /\ corner1 = ZR.Min /\ corner2 = ZR.Min /\ scanned = 0 /\ contourSeen = {}
  /\ crop = ZR
  /\ capSt = [pc |-> "dispatch", i |-> 0, q |-> 0, w |-> 0, r |-> 0, got |-> 0]

SpecCap == InitCap /\ [][CapNext]_vars

(* ------------------------------ the claims ------------------------------ *)

Holders == {c \in ConnIds : hpc[c] \in HoldingPcs}

\* C1: at most 5 handlers hold a slot of the connection semaphore (have sent
\* on socketSemaphore and not yet returned), however many connections were
\* accepted.
C1_SemaphoreCap == Cardinality(Holders) <= SemCap

\* Five handlers hold a slot while a sixth accepted connection waits.
C1_Witness ==
  /\ Cardinality(Holders) = SemCap
  /\ \E c \in ConnIds : hpc[c] = "sem"

InQueue(id) ==
  {<<p, k>> \in Pools \X (1..(2 * Cardinality(DOMAIN taken))) :
     /\ k <= Len(pool[p])
     /\ <<pool[p][k].conn, pool[p][k].stage, pool[p][k].idx>> = id}

InWork(id) ==
  {<<p, t>> \in Pools \X UNION {wk[q].busy : q \in Pools} :
     /\ t \in wk[p].busy
     /\ <<t.conn, t.stage, t.idx>> = id}

\* C2: every task sent on a pool channel is received by exactly one worker
\* and TreatmentWorker sends it exactly once on its result channel, with the
\* function's output or with an error (the error "no processing function
\* provided" when Function is nil): nothing is delivered twice or dropped.
C2_ExactlyOnce ==
  /\ \A id \in DOMAIN taken :
       /\ taken[id] <= 1
       /\ delivered[id] <= 1
       /\ id[3] < sent[id[1]][id[2]] =>
            /\ Cardinality(InQueue(id)) + Cardinality(InWork(id)) + delivered[id] = 1
            /\ taken[id] = Cardinality(InWork(id)) + delivered[id]
       /\ id[3] >= sent[id[1]][id[2]] =>
            /\ taken[id] = 0
            /\ InQueue(id) = {}
            /\ InWork(id) = {}
  /\ \A c \in ConnIds, s \in StageSet :
       /\ Len(results[c][s]) + got[c][s] =
            Cardinality({id \in DOMAIN delivered :
                           id[1] = c /\ id[2] = s /\ delivered[id] = 1})
       /\ \A k \in 1..Len(results[c][s]) :
            LET r == results[c][s][k] IN
            /\ r.conn = c /\ r.stage = s
            /\ delivered[<<c, s, r.idx>>] = 1
            /\ r.fn = "nil" => r.err = "nofunc" /\ r.out = "zero"
            /\ r.fn # "nil" => \/ r.err = "none" /\ r.out = "value"
                               \/ r.err = "ferr" /\ r.out = "zero"
            /\ \A j \in 1..Len(results[c][s]) :
                 results[c][s][j].idx = r.idx => j = k

\* A task without a function and a task with one were both delivered.
C2_Witness ==
  \E c \in ConnIds, s \in StageSet :
    /\ \E k \in 1..Len(results[c][s]) : results[c][s][k].err = "nofunc"
    /\ \E k \in 1..Len(results[c][s]) : results[c][s][k].err = "none"

\* The positions of a handler that has left the collection loop of stage s.
AfterStage(s) ==
  CASE s = "gray" -> {"collCanny", "dispBfs", "collBfs", "dispQuad", "collQuad", "reply"}
    [] s = "canny" -> {"dispBfs", "collBfs", "dispQuad", "collQuad", "reply"}
    [] s = "bfs" -> {"dispQuad", "collQuad", "reply"}
    [] s = "quad" -> {"reply"}

AllDelivered(c, s) ==
  \A i \in 0..(numWorkers - 1) : delivered[<<c, s, i>>] = 1

\* C4 as stated: no task of a stage is dispatched before every task of the
\* preceding stage of the connection has delivered its result, and the reply
\* is written only after the Quadrilateral stage was collected.
C4_StrictStageOrder ==
  \A c \in ConnIds :
    /\ sent[c]["canny"] > 0 => AllDelivered(c, "gray")
    /\ sent[c]["bfs"] > 0 => AllDelivered(c, "canny")
    /\ sent[c]["quad"] > 0 => AllDelivered(c, "bfs")
    /\ replied[c] => got[c]["quad"] = numWorkers

\* C4 as amended: the Canny task of iteration i is dispatched once i+1 Gray
\* results were collected, so Gray and Canny tasks of one connection overlap;
\* every Contours task is dispatched after all numWorkers Canny results were
\* collected, every Quadrilateral task after all Contours results, and the
\* reply is written after the Quadrilateral stage was collected.
C4_PipelinedStageOrder ==
  \A c \in ConnIds :
    /\ sent[c]["canny"] <= got[c]["gray"]
    /\ sent[c]["bfs"] > 0 =>
         /\ AllDelivered(c, "gray") /\ AllDelivered(c, "canny")
         /\ got[c]["gray"] = numWorkers /\ got[c]["canny"] = numWorkers
    /\ sent[c]["quad"] > 0 =>
         AllDelivered(c, "bfs") /\ got[c]["bfs"] = numWorkers
    /\ replied[c] => AllDelivered(c, "quad") /\ got[c]["quad"] = numWorkers

\* A Canny task was dispatched while a Gray task of the connection is not
\* delivered.
C4_Witness ==
  \E c \in ConnIds : sent[c]["canny"] > 0 /\ ~AllDelivered(c, "gray")

\* C5: once a handler has collected a result that carries an error it has
\* returned with its connection closed and without a reply, and it has
\* dispatched nothing after that result: no task of a later stage, and in the
\* Gray loop not the Canny task of the failed iteration.
C5_ErrorAborts ==
  \A c \in ConnIds :
    errSeen[c] =>
      /\ hpc[c] = "done"
      /\ exitWhy[c] = "error"
      /\ conn[c] = "closed"
      /\ ~replied[c]
      /\ \/ /\ got[c]["canny"] = 0
            /\ sent[c]["canny"] = got[c]["gray"] - 1
            /\ sent[c]["bfs"] = 0
            /\ sent[c]["quad"] = 0
         \/ /\ got[c]["canny"] > 0
            /\ got[c]["bfs"] = 0
            /\ sent[c]["bfs"] = 0
            /\ sent[c]["quad"] = 0
         \/ /\ got[c]["bfs"] > 0
            /\ got[c]["quad"] = 0
            /\ sent[c]["quad"] = 0
         \/ got[c]["quad"] > 0

\* A handler collected a failed result in the last stage.
C5_Witness ==
  \E c \in ConnIds : errSeen[c] /\ got[c]["quad"] > 0

\* C6 as stated: a handler that stood in a collection loop after the shutdown
\* signal fired never writes reply bytes.
C6_NoReplyAfterSignal ==
  \A c \in ConnIds : sawStop[c] => ~replied[c]

\* C6 as amended: a handler whose collection select takes the shutdown case
\* returns without a reply and never writes reply bytes; a select that also
\* has a result ready may take the result, and that handler can still reply.
C6_NoReplyAfterShutdownBranch ==
  \A c \in ConnIds :
    exitWhy[c] = "shutdown" =>
      /\ hpc[c] = "done"
      /\ conn[c] = "closed"
      /\ ~replied[c]

\* A handler left its last collection loop through the shutdown case.
C6_Witness ==
  \E c \in ConnIds : exitWhy[c] = "shutdown" /\ sent[c]["quad"] = numWorkers

\* C7: when the server process exits after the shutdown signal, the three
\* pool channels are closed, no task is left queued or in work, and every
\* worker has terminated.
C7_ShutdownDrains ==
  proc = "exited" =>
    \A p \in Pools :
      /\ poolClosed[p]
      /\ pool[p] = <<>>
      /\ wk[p].busy = {}
      /\ wk[p].stopped = numWorkers

\* C8: a decode or encode failure on one connection closes that connection
\* without a reply and leaves the server process running.
C8_CodecFailureLocal ==
  \A c \in ConnIds :
    failure[c] \in {"decode", "encode"} =>
      /\ proc # "fatal"
      /\ conn[c] = "closed"
      /\ ~replied[c]

\* C9: when the stitching loop has ended, every row of the image bounds was
\* written by draw.Draw from exactly one Canny band, for every image height
\* and every numWorkers >= 1.
C9_StitchCoversOnce ==
  spc = "done" => \A y \in DOMAIN drawn : Cardinality(drawn[y]) = 1

\* C10: the crop rectangle built from the two points FindCorner returns lies
\* inside the image bounds, for every image and every contour found in it.
C10_CropInsideBounds ==
  cpc = "cropped" =>
    /\ 0 <= crop.Min.X /\ crop.Min.X <= crop.Max.X /\ crop.Max.X <= imgW
    /\ 0 <= crop.Min.Y /\ crop.Min.Y <= crop.Max.Y /\ crop.Max.Y <= imgH
    /\ crop.Min = corner1 /\ crop.Max = corner2

\* A contour with points on both sides of the centre was cropped.
C10_Witness ==
  /\ cpc = "cropped"
  /\ scanned > 1
  /\ crop.Min.X < Center.X /\ crop.Max.X > Center.X
  /\ crop.Min.Y < Center.Y /\ crop.Max.Y > Center.Y

SliceOf(k) ==
  {j \in 1..Len(quadSt.slices) :
     quadSt.slices[j].start <= k /\ k < quadSt.slices[j].end}

\* C11: the Partition-Quad slices are contiguous index ranges, pairwise
\* disjoint, and cover every contour exactly once; each slice has
\* len/numWorkers contours and the last one also takes the remainder, for
\* every number of contours (0 included) and every numWorkers >= 1.
C11_QuadSlicesPartition ==
  quadSt.pc # "dispatch" =>
    LET n == Len(quadSt.bfsResult)
        sl == quadSt.slices
    IN /\ Len(sl) = numWorkers
       /\ sl[1].start = 0
       /\ sl[numWorkers].end = n
       /\ \A j \in 1..numWorkers :
            /\ sl[j].start <= sl[j].end
            /\ j < numWorkers => sl[j].end = sl[j + 1].start
            /\ j < numWorkers => sl[j].end - sl[j].start = n \div numWorkers
            /\ j = numWorkers =>
                 sl[j].end - sl[j].start = (n \div numWorkers) + (n % numWorkers)
       /\ \A k \in 0..(n - 1) : Cardinality(SliceOf(k)) = 1

\* The contours do not divide evenly and every slice is non-empty.
C11_Witness ==
  /\ quadSt.pc = "done"
  /\ numWorkers > 1
  /\ Len(quadSt.bfsResult) % numWorkers # 0
  /\ Len(quadSt.bfsResult) > numWorkers

MaxOfAreas(areas) ==
  IF areas = <<>> THEN 0
  ELSE CHOOSE m \in {areas[k] : k \in 1..Len(areas)} :
         \A k \in 1..Len(areas) : areas[k] <= m

\* C12: the area of the selected contour is the maximum polygon area over all
\* contours (0 when there is none), whatever the order of the contours in
\* bfsResult and the order in which the slice results arrive; the selected
\* contour is one that has this area, and no contour when the area is 0.
C12_GlobalMaxArea ==
  quadSt.pc = "done" =>
    LET a4 == quadSt.contourA4 IN
    /\ a4.Area = MaxOfAreas(quadSt.bfsResult)
    /\ a4.Area > 0 => a4.Contour >= 0 /\ quadSt.bfsResult[a4.Contour + 1] = a4.Area
    /\ a4.Area = 0 => a4.Contour = -1

\* The largest contour lies in the first slice and that slice's result
\* arrived last.
C12_Witness ==
  /\ quadSt.pc = "done"
  /\ numWorkers > 1
  /\ quadSt.arrival[numWorkers] = 0
  /\ quadSt.contourA4.Area = MaxArea
  /\ quadSt.contourA4.Contour = 0
  /\ Len(quadSt.bfsResult) = MaxContours

\* C13: when no quadrilateral was found (best area 0) the handler builds the
\* zero-area rectangle at the image centre and a reply for it is sent.
C13_EmptyCropReplied ==
  cpc = "finished" /\ contourA4.Area = 0 => replyOut = "sent"

\* C14 as stated: with best area 0 the crop rectangle is the bounds of the
\* input image.
C14_FullImageFallback ==
  cpc \in {"cropped", "finished"} /\ contourA4.Area = 0 =>
    crop = [Min |-> [X |-> 0, Y |-> 0], Max |-> [X |-> imgW, Y |-> imgH]]

\* C14 as amended: with best area 0 there is no fallback; the crop rectangle
\* is the empty rectangle whose two corners are the image centre (W/2, H/2).
C14_CentreRectangle ==
  cpc \in {"cropped", "finished"} /\ contourA4.Area = 0 =>
    /\ crop.Min = crop.Max
    /\ 2 * crop.Min.X <= imgW /\ imgW < 2 * crop.Min.X + 2
    /\ 2 * crop.Min.Y <= imgH /\ imgH < 2 * crop.Min.Y + 2

\* An image of odd width and even height with no contour was cropped.
C14_Witness ==
  /\ cpc = "cropped"
  /\ contourA4.Area = 0
  /\ imgW = 3 /\ imgH = 4
  /\ crop.Min = [X |-> 1, Y |-> 2]

Adjacent(q, o) ==
  /\ q # o
  /\ q.X - o.X \in {-1, 0, 1}
  /\ q.Y - o.Y \in {-1, 0, 1}

RECURSIVE Grow(_, _, _)
\* The pixels of white that are 8-connected to the set S through frontier.
Grow(white, S, frontier) ==
  LET new == {q \in white \ S : \E o \in frontier : Adjacent(q, o)}
  IN IF new = {} THEN S ELSE Grow(white, S \cup new, new)

RECURSIVE Components(_, _)
\* The 8-connected components of white among the pixels of rest.
Components(white, rest) ==
  IF rest = {} THEN {}
  ELSE LET q == CHOOSE o \in rest : TRUE
           c == Grow(white, {q}, {q})
       IN {c} \cup Components(white, rest \ c)

SeqSet(sq) == {sq[k] : k \in 1..Len(sq)}

\* C16: FindContoursBFS returns exactly the connected components of white
\* pixels that it meets in bounds and that have 51 pixels or more, each once
\* and each pixel once; a component of 50 pixels or fewer is discarded.
C16_ContourThreshold ==
  bfsSt.pc = "done" =>
    LET comps == Components(bfsSt.white, bfsSt.white)
        met == {c \in comps : \E q \in c : InRect(q, bfsSt.bounds)}
        cs == bfsSt.contours
    IN /\ \A k \in 1..Len(cs) :
            /\ SeqSet(cs[k]) \in met
            /\ Len(cs[k]) = Cardinality(SeqSet(cs[k]))
            /\ Len(cs[k]) >= 51
            /\ \A j \in 1..Len(cs) : SeqSet(cs[j]) = SeqSet(cs[k]) => j = k
       /\ \A c \in met :
            /\ Cardinality(c) >= 51 => \E k \in 1..Len(cs) : SeqSet(cs[k]) = c
            /\ Cardinality(c) <= 50 => \A k \in 1..Len(cs) : SeqSet(cs[k]) # c

\* A component of 51 pixels that touch only at corners was kept, and an
\* isolated pixel was discarded.
C16_Witness ==
  /\ bfsSt.pc = "done"
  /\ Len(bfsSt.contours) = 1
  /\ Len(bfsSt.contours[1]) = 51
  /\ Pt(1, 1) \in bfsSt.white /\ Pt(1, 0) \notin bfsSt.white
  /\ Cardinality(bfsSt.white) = 52

\* C15: for a band whose pixels all have the same gray value the edge map of
\* ApplyCannyEdgeDetection is 0 at every pixel and contour extraction on it
\* returns no contour.
C15_SolidBandNoEdges ==
  /\ cannySt.pc = "done" => \A q \in Points(cannySt.out.Rect) : cannySt.out.Pix[q] = 0
  /\ cannySt.pc = "done" /\ bfsSt.pc = "done" => bfsSt.contours = <<>>

\* C17: when the image has fewer rows than numWorkers, no task is dispatched
\* for a band of zero height.
C17_NoEmptyBandTask ==
  imgH < numWorkers =>
    \A b \in bands \cup SeqSet(cannyResults) : b.Max > b.Min

\* C18: the bytes receiveImage hands to the decoder are the received bytes
\* with the marker removed: for a request that ended with the marker they do
\* not end with the marker.
C18_MarkerStripped ==
  recvSt.pc = "done" =>
    /\ recvSt.decoded = recvSt.data
    /\ HasSuffix(recvSt.dataBuffer, EOFMarker) =>
         Len(recvSt.decoded) = Len(recvSt.dataBuffer) - Len(EOFMarker)

RECURSIVE Accepted(_, _)
\* The number of bytes the connection accepted in the first k writes.
Accepted(writes, k) ==
  IF k = 0 THEN 0 ELSE Accepted(writes, k - 1) + writes[k].n

\* C19: sendImage offers at most 1024 bytes per write, every write starts at
\* the first byte the connection has not accepted yet, the accepted bytes
\* never go beyond the buffer, and when sendImage returns the accepted bytes
\* are the whole encoded buffer in order, also after writes that accepted
\* fewer bytes than were offered.
C19_SendInOrder ==
  LET ws == sendSt.writes IN
  sendSt.pc # "off" =>
    /\ \A k \in 1..Len(ws) :
         /\ ws[k].offered <= bufferSize
         /\ ws[k].n <= ws[k].offered
         /\ ws[k].from = Accepted(ws, k - 1)
         /\ ws[k].from + ws[k].offered <= sendSt.dataLen
    /\ sendSt.pc = "returned" => Accepted(ws, Len(ws)) = sendSt.dataLen

\* A reply of more than two full writes was sent completely although one
\* write accepted a single byte.
C19_Witness ==
  /\ sendSt.pc = "returned"
  /\ sendSt.dataLen > 2 * bufferSize
  /\ \E k \in 1..Len(sendSt.writes) :
       sendSt.writes[k].n = 1 /\ sendSt.writes[k].offered = bufferSize

\* C20: at most 100 tasks are dispatched with one result channel, and no
\* worker that holds a task finds the result channel full.
C20_ResultChannelRoom ==
  capSt.pc # "off" =>
    /\ capSt.i <= ResultCap
    /\ ~(capSt.w > 0 /\ capSt.r >= ResultCap)

\* C21: a handler that acquired a slot of the semaphore gives back exactly
\* one slot when it returns, on every exit path, so a connection that waits
\* on the semaphore is admitted once a handler has returned (or the process
\* has ended through os.Exit or log.Fatalf).
C21_WaiterAdmitted ==
  \A c \in 1..(SemCap + 1) :
    (/\ hpc[c] = "sem"
     /\ \E d \in ConnIds : hpc[d] = "done" /\ exitWhy[d] # "refused")
      ~> (hpc[c] # "sem" \/ proc \in {"exited", "fatal"})

\* C22: after a pool's task channel is closed every worker of the pool
\* terminates once the queued tasks have been processed (a closed channel
\* stays closed, so from some point on every closed pool has all its workers
\* terminated and its channel empty); no worker terminates while the channel
\* is open or a task is queued, a terminated worker stays terminated and
\* takes no task.
C22_WorkersDrainThenStop ==
  /\ [](\A p \in Pools :
          /\ wk[p].idle + wk[p].stopped + Cardinality(wk[p].busy) = numWorkers
          /\ wk[p].stopped > 0 => poolClosed[p] /\ pool[p] = <<>>)
  /\ [][\A p \in Pools : wk'[p].stopped >= wk[p].stopped]_vars
  /\ <>[](\A p \in Pools :
            poolClosed[p] => wk[p].stopped = numWorkers /\ pool[p] = <<>>)

\* A worker of a closed pool has terminated while another worker of the pool
\* still processes a task.
C22_Witness ==
  \E p \in Pools : poolClosed[p] /\ wk[p].stopped > 0 /\ wk[p].busy # {}

C24_NoSendOnClosed == proc # "panic"

\* C26: every result buffered in a result channel of a handler, and so every
\* result the handler collects, comes from a task that this handler
\* dispatched for this stage, whatever the interleaving of the connections'
\* tasks in the shared pools.
C26_OwnResultsOnly ==
  \A c \in ConnIds, s \in StageSet :
    /\ \A k \in 1..Len(results[c][s]) :
         /\ results[c][s][k].conn = c
         /\ results[c][s][k].stage = s
         /\ results[c][s][k].idx < sent[c][s]
    /\ got[c][s] + Len(results[c][s]) =
         Cardinality({i \in WorkerIds : delivered[<<c, s, i>>] > 0})
    /\ got[c][s] <= sent[c][s]

\* Tasks of two connections are queued in the same pool channel while a
\* handler has already collected a result.
C26_Witness ==
  /\ \E p \in Pools : \E j, k \in 1..Len(pool[p]) :
       pool[p][j].conn # pool[p][k].conn
  /\ \E c \in ConnIds : got[c]["gray"] > 0

\* C25: without a shutdown signal and without a failing processing function,
\* every handler that decoded its image goes through the four stages and
\* sends its reply.
C25_DecodedIsReplied ==
  \A c \in 1..MaxConns :
    (c \in ConnIds /\ hpc[c] = "dispGray")
      ~> (stopped \/ faults > 0 \/ (c \in ConnIds /\ replied[c]))

\* The Tile-Gray bands dispatched so far and the Canny bands collected.
BandsSeen == bands \cup {cannyResults[k] : k \in 1..Len(cannyResults)}

\* C27 as stated: with h the band height, band 0 covers the rows [0, min(h,
\* H)) and band i >= 1 the rows [i*h - 20, min((i+1)*h, H)).
C27_UpwardOverlapOnly ==
  \A b \in BandsSeen :
    /\ b.band = 0 => b.Min = 0 /\ b.Max = Min2(chunkSize, imgH)
    /\ b.band >= 1 =>
         /\ b.Min = b.band * chunkSize - overlapSize
         /\ b.Max = Min2((b.band + 1) * chunkSize, imgH)

\* C27 as amended: band i covers the rows [s, e) with e = min((i+1)*h + 20,
\* H) and s = i*h - 20 when i*h > 20, s = i*h otherwise; it is the empty
\* image (zero rectangle) when s >= e. Every band is extended 20 rows
\* downward as far as the image goes, and upward only when it starts below
\* row 20.
C27_OverlapBothSides ==
  \A b \in BandsSeen :
    LET s0 == b.band * chunkSize
        s == IF s0 > overlapSize THEN s0 - overlapSize ELSE s0
        e == Min2(s0 + chunkSize + overlapSize, imgH)
    IN IF s < e THEN b.Min = s /\ b.Max = e
                ELSE b.Min = 0 /\ b.Max = 0

\* A middle band that carries 20 rows of the band above it and 20 rows of
\* the band below it.
C27_Witness ==
  \E b \in BandsSeen :
    /\ b.band = 1
    /\ b.Min = chunkSize - overlapSize
    /\ b.Max = 2 * chunkSize + overlapSize
    /\ b.Max < imgH

\* The last 20 rows (or all rows, if fewer) of the band dispatched last.
LastBandBottom ==
  LET last == SubImage(numWorkers - 1)
  IN Max2(last.Min, last.Max - overlapSize)..(last.Max - 1)

\* C28 as stated: after the stitching loop the bottom 20 rows of the last
\* band have not been drawn into the stitched edge map.
C28_LastBandTruncated ==
  spc = "done" => \A y \in LastBandBottom : drawn[y] = {}

\* C28 as amended: the bottom 20 rows of the last band stay undrawn when the
\* last band starts at a row <= 20 (numWorkers = 1, or bands of at most
\* 20 / (numWorkers - 1) rows) and so carries no overlap above it; with two
\* or more bands of more than 20 rows, every row from the nominal offset of
\* the last band to the end of the image is drawn from the last band.
C28_TruncatedWithoutUpperOverlap ==
  spc = "done" =>
    LET startY == (numWorkers - 1) * chunkSize
    IN /\ startY <= overlapSize => \A y \in LastBandBottom : drawn[y] = {}
       /\ numWorkers >= 2 /\ chunkSize > overlapSize =>
            \A y \in startY..(imgH - 1) : numWorkers - 1 \in drawn[y]

\* One band over an image of more than 20 rows: the rows above the last 20
\* are drawn, the last 20 are not.
C28_Witness ==
  /\ spc = "done"
  /\ numWorkers = 1
  /\ imgH > overlapSize
  /\ drawn[imgH - overlapSize - 1] = {0}
  /\ \A y \in (imgH - overlapSize)..(imgH - 1) : drawn[y] = {}

\* C29: after the sort by Y-origin the band at position i of the slice is the
\* band that was dispatched with index i, for every image height, every
\* numWorkers >= 1 and every arrival order.
C29_SortRestoresDispatchOrder ==
  spc \in {"draw", "done"} =>
    \A k \in 1..Len(cannyResults) : cannyResults[k].band = k - 1

C31_FullImageComponents ==
  (/\ bfsSt.pc = "done"
   /\ bfsSt.bounds = [Min |-> Pt(0, 0),
                      Max |-> Pt(MaxPixels + 2, MaxPixels + 3)]) =>
    LET cs == bfsSt.contours
        Chain(q) == Grow(bfsSt.white, {q}, {q})
    IN /\ \A k \in 1..Len(cs) :
            /\ \A i, j \in 1..Len(cs[k]) : cs[k][i] = cs[k][j] => i = j
            /\ \A j \in 1..Len(cs) :
                 j # k => SeqSet(cs[j]) \cap SeqSet(cs[k]) = {}
            /\ \A q \in SeqSet(cs[k]) :
                 /\ q \in bfsSt.white
                 /\ \A o \in bfsSt.white :
                      o \in SeqSet(cs[k]) <=> o \in Chain(q)
       /\ \A q \in bfsSt.white :
            (\E k \in 1..Len(cs) : q \in SeqSet(cs[k]))
              <=> Cardinality(Chain(q)) > 50

\* The call on the full image returned one contour for a component of 52
\* pixels whose pixels touch only at corners, and left out an isolated white
\* pixel of the same image.
C31_Witness ==
  /\ bfsSt.pc = "done"
  /\ bfsSt.bounds.Max.Y = MaxPixels + 3 /\ bfsSt.bounds.Min.Y = 0
  /\ Len(bfsSt.contours) = 1
  /\ Len(bfsSt.contours[1]) = 52
  /\ Pt(1, 1) \in bfsSt.white /\ Pt(1, 0) \notin bfsSt.white
  /\ Pt(0, MaxPixels + 2) \in bfsSt.white

RECURSIVE Shoelace(_, _)
\* The sum over i..n-1 of x_i * y_((i+1) mod n) - x_((i+1) mod n) * y_i.
Shoelace(points, i) ==
  IF i >= Len(points) THEN 0
  ELSE LET n == Len(points)
           x == [k \in 0..(n - 1) |-> points[k + 1].X]
           y == [k \in 0..(n - 1) |-> points[k + 1].Y]
       IN (x[i] * y[(i + 1) % n] - x[(i + 1) % n] * y[i])
            + Shoelace(points, i + 1)

\* C32: for every contour of n >= 1 points polygonArea returns half of the
\* absolute value of the shoelace sum over i in 0..n-1; the result is never
\* negative and is 0 when n <= 2.
C32_ShoelaceArea ==
  (areaSt.pc = "done" /\ Len(areaSt.points) >= 1) =>
    /\ areaSt.ret.Den = 2
    /\ areaSt.ret.Num = Abs(Shoelace(areaSt.points, 0))
    /\ areaSt.ret.Num >= 0
    /\ Len(areaSt.points) <= 2 => areaSt.ret.Num = 0

\* polygonArea returned 1/2 for a triangle whose points are in the order that
\* makes the sum negative.
C32_Witness ==
  /\ areaSt.pc = "done"
  /\ Len(areaSt.points) = 3
  /\ areaSt.area = -1
  /\ areaSt.ret = [Num |-> 1, Den |-> 2]

\* C33: FindQuadrilateral applied to a slice returns a contour of that slice
\* whose polygon area is the maximum over the slice, together with exactly
\* that area; for an empty slice, or a slice whose contours all have area 0,
\* it returns the empty contour with area 0.
C33_SliceMaxArea ==
  \A k \in 1..Len(quadSt.findQuadrilateralResult) :
    LET r == quadSt.findQuadrilateralResult[k]
        sl == quadSt.slices[quadSt.arrival[k] + 1]
        idx == sl.start..(sl.end - 1)
    IN IF \A j \in idx : quadSt.bfsResult[j + 1] = 0
         THEN r = NoContour
         ELSE /\ r.Contour \in idx
              /\ r.Area = quadSt.bfsResult[r.Contour + 1]
              /\ \A j \in idx : quadSt.bfsResult[j + 1] <= r.Area

\* One worker returned the second contour of its slice, which has the larger
\* area, and another returned the empty contour for contours of area 0.
C33_Witness ==
  /\ Len(quadSt.findQuadrilateralResult) = 2
  /\ \E k \in 1..2 :
       LET r == quadSt.findQuadrilateralResult[k]
           sl == quadSt.slices[quadSt.arrival[k] + 1]
       IN /\ r.Contour = sl.start + 1
          /\ r.Area = MaxArea
          /\ quadSt.bfsResult[sl.start + 1] = 1
  /\ \E k \in 1..2 :
       LET sl == quadSt.slices[quadSt.arrival[k] + 1]
       IN /\ quadSt.findQuadrilateralResult[k] = NoContour
          /\ sl.end > sl.start

\* C34: FindCorner(contour, center) returns the top-left and bottom-right
\* corners of the smallest axis-aligned rectangle that completely contains
\* the input contour: the componentwise minimum and maximum of its points,
\* for every contour and every centre.
C34_SmallestBoundingBox ==
  (cpc = "cropped" /\ contourSeen # {}) =>
    /\ \A q \in contourSeen :
         /\ corner1.X <= q.X /\ q.X <= corner2.X
         /\ corner1.Y <= q.Y /\ q.Y <= corner2.Y
    /\ \E q \in contourSeen : q.X = corner1.X
    /\ \E q \in contourSeen : q.Y = corner1.Y
    /\ \E q \in contourSeen : q.X = corner2.X
    /\ \E q \in contourSeen : q.Y = corner2.Y

\* C35: in pass 2 of hysteresisThresholding a weak pixel is promoted to
\* strong only if one of its 8 neighbours was labelled strong in pass 1; a
\* weak pixel whose only link to a strong pixel goes through other weak
\* pixels is set to 0.
C35_PromotedOnlyNextToStrong ==
  cannySt.pc = "done" =>
    LET labels == Classify(cannySt.nms, cannySt.thr) IN
    \A q \in FromOne(cannySt.nms.Rect) :
      labels.Pix[q] = 75 =>
        cannySt.out.Pix[q] =
          IF \E k \in 1..Len(directions) :
               GrayAt(labels, q.X + directions[k].X,
                              q.Y + directions[k].Y) = 255
            THEN 255 ELSE 0

C37_WholePayloadBuffered ==
  (recvSt.pc \in {"decode", "done"} /\ recvSt.marked) =>
    /\ Len(recvSt.dataBuffer) >= Len(recvSt.payload)
    /\ SubSeq(recvSt.dataBuffer, 1, Len(recvSt.payload)) = recvSt.payload

\* C38: for all 16-bit channel values R, G, B the value
\* ((299*R + 587*G + 114*B) / 1000) >> 8 equals the truncated weighted
\* luminance 0.299*(R>>8) + 0.587*(G>>8) + 0.114*(B>>8) that Grayscale
\* computes on the 8-bit channel values.
C38_IntegerFormulaIsLuminance ==
  graySt.pc = "done" =>
    graySt.grayValue =
      ((299 * graySt.r + 587 * graySt.g + 114 * graySt.b) \div 1000) \div 256

====
